---- MODULE Spec2Model ----
(***************************************************************************)
(* A model of the scoring engine of nf-synapse-challenge,                  *)
(* src/bin/dynamic_challenge_score.py: the metrics, the dispatch table,    *)
(* the task registry, the aggregator calculate_all_scores and the pipeline *)
(* score_submission, with the files they read and write.                   *)
(*                                                                         *)
(* Numbers.  A numpy float is one of                                       *)
(*   Num(v)   the finite value v / Scale (fixed point, rounded down),      *)
(*   NaN      not-a-number (0.0 / 0.0; numpy warns, it does not raise),    *)
(*   PInf, NInf   the infinities (x / 0.0).                                *)
(* Arrays hold integers; a 2-D array is a sequence of rows.                *)
(*                                                                         *)
(* Names.  A file name is the sequence of its tokens: each of the          *)
(* separator characters "_", "/" and "." is a token of its own and every   *)
(* maximal run of other characters is one token, so two names are the same *)
(* string exactly when they are the same sequence.                         *)
(***************************************************************************)
EXTENDS Integers, Sequences, FiniteSets, TLC

INVALID == "INVALID"
SCORED == "SCORED"

\* Fixed-point resolution of the model's floats: units per 1.0.
Scale == 1000

\* Longest archive (number of members) the pipeline is run on.
MaxMembers == 2

(***************************************************************************)
(* Floats                                                                  *)
(***************************************************************************)
Num(v) == [t |-> "num", v |-> v]
NaN == [t |-> "nan", v |-> 0]
PInf == [t |-> "inf", v |-> 1]
NInf == [t |-> "inf", v |-> -1]

\* floor(sqrt(x)) by bisection, given lo * lo <= x < hi * hi
RECURSIVE IsqrtBetween(_, _, _)
IsqrtBetween(x, lo, hi) ==
    IF hi - lo <= 1
    THEN lo
    ELSE LET mid == (lo + hi) \div 2
         IN  IF mid * mid <= x
             THEN IsqrtBetween(x, mid, hi)
             ELSE IsqrtBetween(x, lo, mid)

\* floor(sqrt(x)) for 0 <= x < 2^30
Isqrt(x) == IsqrtBetween(x, 0, 32768)

\* sqrt of the integer sq, as a fixed-point number
FSqrt(sq) == Isqrt(sq * Scale * Scale)

\* faulty variant: a zero divisor is guarded, as in the histogram errors
FDivGuarded(a, b) ==
    IF b = 0 THEN Num(0) ELSE Num((a * Scale) \div b)
\* a / b for two finite fixed-point numbers a, b >= 0, as numpy divides floats
FDiv(a, b) ==
    IF b = 0
    THEN (IF a = 0 THEN NaN ELSE PInf)
    ELSE Num((a * Scale) \div b)

\* 100 * (1 - x)
Score100(x) ==
    CASE x.t = "num" -> Num(100 * (Scale - x.v))
      [] x.t = "nan" -> NaN
      [] OTHER -> (IF x.v > 0 THEN NInf ELSE PInf)

\* Python's a > b on floats: False whenever one side is NaN
FGreater(a, b) ==
    CASE a.t = "nan" \/ b.t = "nan" -> FALSE
      [] a.t = "inf" /\ b.t = "inf" -> a.v > b.v
      [] a.t = "inf" -> a.v > 0
      [] b.t = "inf" -> b.v < 0
      [] OTHER -> a.v > b.v

\* floor(log2(p)) for p >= 1
RECURSIVE Log2Floor(_)
Log2Floor(p) == IF p < 2 THEN 0 ELSE 1 + Log2Floor(p \div 2)

RECURSIVE Pow2(_)
Pow2(e) == IF e = 0 THEN 1 ELSE 2 * Pow2(e - 1)

\* np.log(p) of an integer p >= 0: -inf for 0 (numpy warns, it does not
\* raise), else ln(p) = e * ln(2) + 2 * atanh(z) with p = 2^e * r, 1 <= r < 2
\* and z = (r - 1) / (r + 1), computed in units of 1/10000
FLog(p) ==
    IF p = 0
    THEN NInf
    ELSE LET e == Log2Floor(p)
             z == ((p - Pow2(e)) * 10000) \div (p + Pow2(e))
             z2 == (z * z) \div 10000
             z3 == (z * z2) \div 10000
             z5 == (z3 * z2) \div 10000
             z7 == (z5 * z2) \div 10000
             ln == e * 6931 + 2 * (z + z3 \div 3 + z5 \div 5 + z7 \div 7)
         IN  Num((ln * Scale) \div 10000)

\* faulty variant: the score is stored unclamped
PyMaxFirst(a, b) == a
\* Python's builtin max(a, b): the first argument unless the second is greater
PyMax(a, b) == IF FGreater(b, a) THEN b ELSE a

(***************************************************************************)
(* Arrays                                                                  *)
(***************************************************************************)
Rows(X) == Len(X)
Cols(X) == IF Len(X) = 0 THEN 0 ELSE Len(X[1])

Min2(a, b) == IF a < b THEN a ELSE b
Max2(a, b) == IF a > b THEN a ELSE b

\* X[:, 0:k]
FirstCols(X, k) == [i \in 1..Rows(X) |-> SubSeq(X[i], 1, Min2(k, Cols(X)))]

\* X[-r:, :]  (r > 0)
LastRows(X, r) == SubSeq(X, Max2(Rows(X) - r, 0) + 1, Rows(X))

\* numpy broadcasting of two 2-D shapes
Broadcastable(X, Y) ==
    /\ Rows(X) = Rows(Y) \/ Rows(X) = 1 \/ Rows(Y) = 1
    /\ Cols(X) = Cols(Y) \/ Cols(X) = 1 \/ Cols(Y) = 1

\* X - Y under broadcasting
MatSub(X, Y) ==
    [i \in 1..Max2(Rows(X), Rows(Y)) |->
        [j \in 1..Max2(Cols(X), Cols(Y)) |->
            X[IF Rows(X) = 1 THEN 1 ELSE i][IF Cols(X) = 1 THEN 1 ELSE j]
            - Y[IF Rows(Y) = 1 THEN 1 ELSE i][IF Cols(Y) = 1 THEN 1 ELSE j]]]

RECURSIVE SumSq(_)
SumSq(v) == IF v = <<>> THEN 0 ELSE v[1] * v[1] + SumSq(Tail(v))

RECURSIVE SumSqRows(_)
SumSqRows(X) == IF X = <<>> THEN 0 ELSE SumSq(X[1]) + SumSqRows(Tail(X))

\* np.linalg.norm(v, 2) of a 1-D array: the Euclidean norm
VecNorm(v) == FSqrt(SumSq(v))

\* the position (from 1) that Python's index i has in a sequence of length
\* len, negative indices counting from the end; 0 when it is out of bounds
PyIndex(len, i) ==
    IF i >= 0 /\ i < len
    THEN i + 1
    ELSE IF i < 0 /\ i >= 0 - len THEN len + i + 1 ELSE 0

\* X[:, c]
Column(X, c) == [i \in 1..Rows(X) |-> X[i][PyIndex(Cols(X), c)]]

\* v[lo:hi] by Python's slicing rules (hi > 0)
Slice(v, lo, hi) ==
    LET start == IF lo < 0 THEN Max2(lo + Len(v), 0) ELSE Min2(lo, Len(v))
        stop == Min2(hi, Len(v))
    IN  SubSeq(v, start + 1, stop)

RECURSIVE Dot(_, _)
Dot(u, v) == IF u = <<>> THEN 0 ELSE u[1] * v[1] + Dot(Tail(u), Tail(v))

\* the largest eigenvalue of the Gram matrix [[a, b], [b, c]] of two columns
GramEigen(a, b, c) == (a + c + Isqrt((a - c) * (a - c) + 4 * b * b)) \div 2

\* np.linalg.norm(X, 2) of a 2-D array: the largest singular value.  For an
\* array with a single row or a single column that is the Euclidean norm of
\* its entries; for two columns u, v it is the square root of the largest
\* eigenvalue of their Gram matrix (computed in units of 1/64).  Arrays
\* with more rows and columns than that are not in the model.
MatNorm(X) ==
    CASE Rows(X) <= 1 \/ Cols(X) <= 1 -> FSqrt(SumSqRows(X))
      [] Rows(X) > 1 /\ Cols(X) = 2 ->
            LET u == Column(X, 0)
                v == Column(X, 1)
                lam == GramEigen(64 * Dot(u, u), 64 * Dot(u, v), 64 * Dot(v, v))
            IN  Isqrt(((lam * Scale) \div 64) * Scale)

(***************************************************************************)
(* Outcome of a call: a returned value or a raised exception (its text)    *)
(***************************************************************************)
Ok(v) == [ok |-> TRUE, val |-> v, exc |-> ""]
Raise(text) == [ok |-> FALSE, val |-> <<>>, exc |-> text]

BroadcastError == "operands could not be broadcast together"
IndexErrorText(i, axis, size) ==
    "index " \o ToString(i) \o " is out of bounds for axis " \o ToString(axis)
    \o " with size " \o ToString(size)

(***************************************************************************)
(* np.histogram(row, bins = np.arange(lo, hi + 1)): hi - lo unit bins, the *)
(* last one closed on the right; values outside [lo, hi] are not counted.  *)
(***************************************************************************)
BinOf(v, lo, hi) == IF v = hi THEN hi - lo ELSE v - lo + 1

Histogram(row, lo, hi) ==
    [b \in 1..(hi - lo) |->
        Cardinality({j \in DOMAIN row :
            row[j] >= lo /\ row[j] <= hi /\ BinOf(row[j], lo, hi) = b})]

VecSub(u, v) == [i \in DOMAIN u |-> u[i] - v[i]]

\* norm(ht - hp) / norm(ht) if norm(ht) > 0 else 0
HistError(ht, hp) ==
    IF VecNorm(ht) > 0 THEN FDiv(VecNorm(VecSub(ht, hp)), VecNorm(ht)) ELSE Num(0)

\* short-time error of the three forecast metrics:
\* norm(truth[:, 0:k] - prediction[:, 0:k], 2) / norm(truth[:, 0:k], 2)
ShortTimeError(truth, prediction, k) ==
    FDiv(MatNorm(MatSub(FirstCols(truth, k), FirstCols(prediction, k))),
         MatNorm(FirstCols(truth, k)))

ode_forecast(truth, prediction, k, modes) ==
    LET yt == LastRows(truth, modes)
        yp == LastRows(prediction, modes)
    IN  IF ~Broadcastable(FirstCols(truth, k), FirstCols(prediction, k))
        THEN Raise(BroadcastError)
        ELSE IF Rows(yt) < 3
        THEN Raise(IndexErrorText(Rows(yt), 0, Rows(yt)))
        ELSE IF Rows(yp) < 3
        THEN Raise(IndexErrorText(Rows(yp), 0, Rows(yp)))
        ELSE
        LET est == ShortTimeError(truth, prediction, k)
            eltx == HistError(Histogram(yt[1], -20, 20), Histogram(yp[1], -20, 20))
            elty == HistError(Histogram(yt[2], -20, 20), Histogram(yp[2], -20, 20))
            eltz == HistError(Histogram(yt[3], 0, 50), Histogram(yp[3], 0, 50))
            elt == Num((eltx.v + elty.v + eltz.v) \div 3)
            e1 == Score100(est)
            e2 == Score100(elt)
        IN  Ok(<<e1, e2>>)

reconstruction(truth, prediction) ==
    IF ~Broadcastable(truth, prediction)
    THEN Raise(BroadcastError)
    ELSE Ok(Score100(FDiv(MatNorm(MatSub(truth, prediction)), MatNorm(truth))))

(***************************************************************************)
(* The spectral metrics.  Their long-time part stacks, for j = 1..k, the   *)
(* cropped log power spectrum of time column n - j onto a matrix of        *)
(* 2 * modes + 1 rows; np.column_stack raises when the crop has another    *)
(* length.  A long-time matrix is the sequence of its columns.             *)
(*                                                                         *)
(* Power spectra are exact: for a transform of length N in {1, 2, 3, 4, 6} *)
(* the number 2 * cos(2 pi r / N) is an integer, and                       *)
(*   |sum_p x[p] exp(-2 pi i ph[p] / N)|^2                                  *)
(*       = (sum_p sum_q x[p] x[q] * 2 cos(2 pi (ph[p] - ph[q]) / N)) / 2.  *)
(* Other lengths are not in the model.  Neither is the norm of a long-time *)
(* matrix with an infinite entry (the logarithm of a zero of the spectrum) *)
(* or with more than two columns: an input that would need one stops the   *)
(* check instead of yielding a made-up number.                             *)
(***************************************************************************)
ConcatError ==
    "all the input array dimensions except for the concatenation axis must match exactly"
ReshapeError(size, nf) ==
    "cannot reshape array of size " \o ToString(size) \o " into shape ("
    \o ToString(nf) \o "," \o ToString(nf) \o ")"

\* X[:, c] is an IndexError unless -Cols(X) <= c < Cols(X)
ColIndexOk(X, c) == c >= 0 - Cols(X) /\ c < Cols(X)

\* len(v[lo:hi]) for a sequence of length len, by Python's slicing rules (hi > 0)
SliceLen(len, lo, hi) ==
    LET start == IF lo < 0 THEN Max2(lo + len, 0) ELSE Min2(lo, len)
        stop == Min2(hi, len)
    IN  Max2(stop - start, 0)

\* 2 * cos(2 pi r / N), 0 <= r < N
TwoCos(N, r) ==
    CASE N = 1 -> 2
      [] N = 2 -> <<2, -2>>[r + 1]
      [] N = 3 -> <<2, -1, -1>>[r + 1]
      [] N = 4 -> <<2, 0, -2, 0>>[r + 1]
      [] N = 6 -> <<2, 1, -1, -2, -1, 1>>[r + 1]

\* f[lo] + ... + f[hi]
RECURSIVE SumRange(_, _, _)
SumRange(f, lo, hi) ==
    IF lo > hi
    THEN 0
    ELSE IF lo = hi
    THEN f[lo]
    ELSE SumRange(f, lo, (lo + hi) \div 2) + SumRange(f, ((lo + hi) \div 2) + 1, hi)

\* |sum_p x[p] * exp(-2 pi i phase[p] / N)|^2
PowerAt(x, phase, N) ==
    LET M == Len(x)
        term == [i \in 1..(M * M) |->
                    LET p == ((i - 1) \div M) + 1
                        q == ((i - 1) % M) + 1
                    IN  x[p] * x[q] * TwoCos(N, (phase[p] - phase[q]) % N)]
    IN  SumRange(term, 1, M * M) \div 2

\* np.multiply(np.abs(np.fft.fft(x)), np.abs(np.fft.fft(x)))
fft_power(x) ==
    [f \in 1..Len(x) |-> PowerAt(x, [s \in 1..Len(x) |-> (f - 1) * (s - 1)], Len(x))]

\* column c of the squared magnitude of np.fft.fft2(x.reshape((nf, nf),
\* order="F")): entry p (from 1) of x is the field's entry at row
\* (p - 1) % nf and column (p - 1) \div nf
fft2_power_column(x, nf, c) ==
    [u \in 1..nf |->
        PowerAt(x, [p \in 1..(nf * nf) |->
                       (u - 1) * ((p - 1) % nf) + c * ((p - 1) \div nf)], nf)]

\* faulty variant: the spectrum is not shifted
fftshift_none(v) == v
\* np.fft.fftshift(v) = np.roll(v, len(v) // 2)
fftshift(v) == [i \in 1..Len(v) |-> v[((i - 1 - (Len(v) \div 2)) % Len(v)) + 1]]

\* np.log(v), element by element
FLogVec(v) == [i \in 1..Len(v) |-> FLog(v[i])]

NoSpectra == [pt |-> <<>>, pp |-> <<>>]

\* iterations j..k of pde_forecast's loop: the two long-time matrices, or
\* the first exception
RECURSIVE pde_spectra(_, _, _, _, _, _)
pde_spectra(truth, prediction, k, modes, j, acc) ==
    LET m == Rows(truth)
        n == Cols(truth)
        m2 == 2 * modes + 1
        lo == (m \div 2) - modes
        hi == (m \div 2) + modes + 1
    IN  IF j > k
        THEN Ok(acc)
        ELSE IF ~ColIndexOk(truth, n - j)
        THEN Raise(IndexErrorText(n - j, 1, n))
        ELSE IF ~ColIndexOk(prediction, n - j)
        THEN Raise(IndexErrorText(n - j, 1, Cols(prediction)))
        ELSE IF SliceLen(m, lo, hi) # m2 \/ SliceLen(Rows(prediction), lo, hi) # m2
        THEN Raise(ConcatError)
        ELSE LET pt3 == fftshift(fft_power(Column(truth, n - j)))
                 pp3 == fftshift(fft_power(Column(prediction, n - j)))
             IN  pde_spectra(truth, prediction, k, modes, j + 1,
                     [pt |-> Append(acc.pt, FLogVec(Slice(pt3, lo, hi))),
                      pp |-> Append(acc.pp, FLogVec(Slice(pp3, lo, hi)))])

\* int(nf / 2) + 1: the column pde_forecast_2d takes from the 2-D spectrum
spectrum_column_2d(nf) == (nf \div 2) + 1

\* iterations j..k of pde_forecast_2d's loop
RECURSIVE pde_spectra_2d(_, _, _, _, _, _, _)
pde_spectra_2d(truth, prediction, k, modes, nf, j, acc) ==
    LET n == Cols(truth)
        m2 == 2 * modes + 1
        c == spectrum_column_2d(nf)
        lo == (nf \div 2) - modes
        hi == (nf \div 2) + modes + 1
    IN  IF j > k
        THEN Ok(acc)
        ELSE IF ~ColIndexOk(truth, n - j)
        THEN Raise(IndexErrorText(n - j, 1, n))
        ELSE IF Rows(truth) # nf * nf
        THEN Raise(ReshapeError(Rows(truth), nf))
        ELSE IF ~ColIndexOk(prediction, n - j)
        THEN Raise(IndexErrorText(n - j, 1, Cols(prediction)))
        ELSE IF Rows(prediction) # nf * nf
        THEN Raise(ReshapeError(Rows(prediction), nf))
        ELSE IF c >= nf
        THEN Raise(IndexErrorText(c, 1, nf))
        ELSE IF SliceLen(nf, lo, hi) # m2
        THEN Raise(ConcatError)
        ELSE LET pt3 == fftshift(fft2_power_column(Column(truth, n - j), nf, c))
                 pp3 == fftshift(fft2_power_column(Column(prediction, n - j), nf, c))
             IN  pde_spectra_2d(truth, prediction, k, modes, nf, j + 1,
                     [pt |-> Append(acc.pt, FLogVec(Slice(pt3, lo, hi))),
                      pp |-> Append(acc.pp, FLogVec(Slice(pp3, lo, hi)))])

AllFinite(C) == \A j \in DOMAIN C : \A i \in DOMAIN C[j] : C[j][i].t = "num"

\* a column of finite floats, in fixed-point units
Units(col) == [i \in DOMAIN col |-> col[i].v]

\* np.linalg.norm(C, 2) of a long-time matrix of one or two finite columns;
\* the Gram matrix of two columns is computed in units of 8192 / Scale^2
ColsNorm(C) ==
    CASE Len(C) = 1 -> Isqrt(SumSq(Units(C[1])))
      [] Len(C) = 2 ->
            LET u == Units(C[1])
                v == Units(C[2])
            IN  Isqrt(8192 * GramEigen(Dot(u, u) \div 8192, Dot(u, v) \div 8192,
                                       Dot(v, v) \div 8192))

\* pt - pp
ColsSub(pt, pp) ==
    [j \in DOMAIN pt |-> [i \in DOMAIN pt[j] |-> Num(pt[j][i].v - pp[j][i].v)]]

\* elt = norm(pt - pp, 2) / norm(pt, 2); e1 = 100 * (1 - est); e2 = 100 * (1 - elt)
spectral_scores(est, pt, pp) ==
    CASE AllFinite(pt) /\ AllFinite(pp) ->
            Ok(<<Score100(est),
                 Score100(FDiv(ColsNorm(ColsSub(pt, pp)), ColsNorm(pt)))>>)

pde_forecast(truth, prediction, k, modes) ==
    IF ~Broadcastable(FirstCols(truth, k), FirstCols(prediction, k))
    THEN Raise(BroadcastError)
    ELSE LET spectra == pde_spectra(truth, prediction, k, modes, 1, NoSpectra)
         IN  IF ~spectra.ok
             THEN spectra
             ELSE spectral_scores(ShortTimeError(truth, prediction, k),
                                  spectra.val.pt, spectra.val.pp)

pde_forecast_2d(truth, prediction, k, modes, nf) ==
    IF ~Broadcastable(FirstCols(truth, k), FirstCols(prediction, k))
    THEN Raise(BroadcastError)
    ELSE LET spectra == pde_spectra_2d(truth, prediction, k, modes, nf, 1, NoSpectra)
         IN  IF ~spectra.ok
             THEN spectra
             ELSE spectral_scores(ShortTimeError(truth, prediction, k),
                                  spectra.val.pt, spectra.val.pp)

(***************************************************************************)
(* SystemDispatch: forecast and its table system_to_forecast               *)
(***************************************************************************)
system_to_forecast ==
    [s \in {"doublependulum", "Lorenz", "Rossler", "KS", "Lorenz96", "Kolmogorov"} |->
        CASE s \in {"doublependulum", "Lorenz", "Rossler"} ->
                [function |-> "ode_forecast", k |-> 20, modes |-> 1000, nf |-> 0]
          [] s = "KS" ->
                [function |-> "pde_forecast", k |-> 20, modes |-> 100, nf |-> 0]
          [] s = "Lorenz96" ->
                [function |-> "pde_forecast", k |-> 20, modes |-> 30, nf |-> 0]
          [] s = "Kolmogorov" ->
                [function |-> "pde_forecast_2d", k |-> 20, modes |-> 30, nf |-> 128]]

\* forecast_func(truth, prediction, **forecast_params)
CallMetric(f, truth, prediction) ==
    CASE f.function = "ode_forecast" -> ode_forecast(truth, prediction, f.k, f.modes)
      [] f.function = "pde_forecast" -> pde_forecast(truth, prediction, f.k, f.modes)
      [] f.function = "pde_forecast_2d" ->
            pde_forecast_2d(truth, prediction, f.k, f.modes, f.nf)

\* faulty variant: the table has no entry for the system
forecast_no_entry(truth, prediction, system) == [ret |-> Ok(<<>>), metric |-> ""]
\* faulty variant: every system name is scored with the ODE metric
forecast_any_system(truth, prediction, system) ==
    [ret |-> ode_forecast(truth, prediction, 20, 1000), metric |-> "ode_forecast"]
\* forecast(truth, prediction, system): what it returns or raises (ret) and
\* the metric function it called ("" when it called none)
forecast(truth, prediction, system) ==
    IF system \in DOMAIN system_to_forecast
    THEN [ret |-> CallMetric(system_to_forecast[system], truth, prediction),
          metric |-> system_to_forecast[system].function]
    ELSE [ret |-> Ok(<<>>), metric |-> ""]

(***************************************************************************)
(* File names                                                              *)
(***************************************************************************)
RECURSIVE Join(_)
Join(name) == IF name = <<>> THEN "" ELSE name[1] \o Join(Tail(name))

\* faulty variant: the member keeps its path
basename_keeps_path(name) == name
\* os.path.basename(name): what follows the last "/"
RECURSIVE basename(_)
basename(name) ==
    IF \E i \in DOMAIN name : name[i] = "/"
    THEN basename(Tail(name))
    ELSE name

\* name.endswith(pattern)
endswith(name, pattern) ==
    /\ Len(name) >= Len(pattern)
    /\ SubSeq(name, Len(name) - Len(pattern) + 1, Len(name)) = pattern

\* f.split("_")[0]: what precedes the first "_"
RECURSIVE split_first(_)
split_first(name) ==
    IF name = <<>> \/ name[1] = "_"
    THEN <<>>
    ELSE <<name[1]>> \o split_first(Tail(name))

\* f"{system}_{prefix}prediction.npy"
pred_name(system, prefix) == <<system, "_", prefix \o "prediction", ".", "npy">>

\* faulty variant: the system folder is not a folder
truth_name_flat(system, prefix) == "Test_" \o system \o "_" \o prefix \o "test.npy"
\* f"Test_{system}/{prefix}test.npy", below the ground-truth root
truth_name(system, prefix) == "Test_" \o system \o "/" \o prefix \o "test.npy"

(***************************************************************************)
(* Dictionaries                                                            *)
(***************************************************************************)
EmptyDict == [key \in {} |-> 0]

\* d.update(e)
Update(d, e) ==
    [key \in DOMAIN d \cup DOMAIN e |-> IF key \in DOMAIN e THEN e[key] ELSE d[key]]

\* a variable holding None, or a dictionary
None == [isNone |-> TRUE, d |-> EmptyDict]
Some(d) == [isNone |-> FALSE, d |-> d]

(***************************************************************************)
(* Directories: a directory that exists maps the names of its files to     *)
(* their contents                                                          *)
(***************************************************************************)
NoDirectory == [exists |-> FALSE, files |-> EmptyDict]

\* tar_f.extract(member, path=directory) of a regular file, its name reduced
\* to a base name: creates the directory if needed, overwrites the file
extract(directory, name, content) ==
    [exists |-> TRUE,
     files |-> [f \in DOMAIN directory.files \cup {name} |->
                    IF f = name THEN content ELSE directory.files[f]]]

RECURSIVE untar_members(_, _, _)
untar_members(directory, members, pattern) ==
    IF members = <<>>
    THEN directory
    ELSE LET member == members[1]
         IN  untar_members(
                 IF member.isfile /\ endswith(member.name, pattern)
                 THEN extract(directory, basename(member.name), member.content)
                 ELSE directory,
                 Tail(members), pattern)

ReadError == "file could not be opened successfully"

\* untar(directory, tar_filename, pattern): the directory afterwards, or the
\* exception of tarfile.open
untar(directory, tar_file, pattern) ==
    IF ~tar_file.readable
    THEN Raise(ReadError)
    ELSE Ok(untar_members(directory, tar_file.members, pattern))

(***************************************************************************)
(* TaskRegistry and ScoreAggregator: calculate_all_scores                  *)
(***************************************************************************)
Task(prefix, score_metric, score_keys, score_indices) ==
    [prefix |-> prefix, score_metric |-> score_metric,
     score_keys |-> score_keys, score_indices |-> score_indices]

task_mapping ==
    [id \in {"9615379", "9615532", "9615534", "9615535"} |->
        CASE id = "9615379" ->
                <<Task("X1", "forecast", <<"stf_E1", "ltf_E2">>, <<0, 1>>)>>
          [] id = "9615532" ->
                <<Task("X2", "reconstruction", <<"recon_E3">>, <<0>>),
                  Task("X3", "forecast", <<"ltf_E4">>, <<1>>),
                  Task("X4", "reconstruction", <<"recon_E5">>, <<0>>),
                  Task("X5", "forecast", <<"ltf_E6">>, <<1>>)>>
          [] id = "9615534" ->
                <<Task("X6", "forecast", <<"stf_E7", "ltf_E8">>, <<0, 1>>)>>
          [] id = "9615535" ->
                <<Task("X7", "forecast", <<"stf_E9", "ltf_E10">>, <<0, 1>>),
                  Task("X8", "reconstruction", <<"recon_E11">>, <<0>>),
                  Task("X9", "reconstruction", <<"recon_E12">>, <<0>>)>>]

\* faulty variant: task_mapping.get(evaluation_id, [])
task_info_or_empty(evaluation_id) ==
    IF evaluation_id \in DOMAIN task_mapping
    THEN [isNone |-> FALSE, tasks |-> task_mapping[evaluation_id]]
    ELSE [isNone |-> FALSE, tasks |-> <<>>]
\* task_mapping.get(evaluation_id): the task list, or None
task_info_of(evaluation_id) ==
    IF evaluation_id \in DOMAIN task_mapping
    THEN [isNone |-> FALSE, tasks |-> task_mapping[evaluation_id]]
    ELSE [isNone |-> TRUE, tasks |-> <<>>]

true_systems == {"doublependulum", "Lorenz", "Rossler", "Lorenz96", "KS", "Kolmogorov"}

\* set(f.split("_")[0] for f in os.listdir(predictions_path))
pred_systems(directory) == {split_first(f) : f \in DOMAIN directory.files}

\* faulty variant: the catalog is not intersected
unique_systems_no_catalog(directory) ==
    {Join(p) : p \in pred_systems(directory)}
\* set(true_systems) & set(pred_systems)
unique_systems(directory) ==
    {system \in true_systems : <<system>> \in pred_systems(directory)}

\* faulty variant: the existence test is dropped
path_exists_always(directory, name) == TRUE
\* os.path.exists(pred_path)
path_exists(directory, name) == directory.exists /\ name \in DOMAIN directory.files

PredictionsDir == "predictions"
GroundtruthRoot == "groundtruth"

NoSuchFile(path) == "[Errno 2] No such file or directory: '" \o path \o "'"

truth_path(system, prefix) == GroundtruthRoot \o "/" \o truth_name(system, prefix)
pred_path(system, prefix) == PredictionsDir \o "/" \o Join(pred_name(system, prefix))

Zeros31 == <<<<0>>, <<0>>, <<0>>>>

\* faulty variant: a missing file loads as zeros
np_load_missing_as_zeros(files, name, path) ==
    IF name \in DOMAIN files THEN Ok(files[name]) ELSE Ok(Zeros31)
\* np.load(path): the array of the file called name among files (name ->
\* array), or FileNotFoundError
np_load(files, name, path) ==
    IF name \in DOMAIN files THEN Ok(files[name]) ELSE Raise(NoSuchFile(path))

\* faulty variant: the key does not name the system
key_without_system(system, key) == key
\* f'{system}_{key}'
key_of(system, key) == system \o "_" \o key

\* for key, index in zip(score_keys, score_indices):
\*     score_result[f'{system}_{key}'] = max(scores[index], 0)
RECURSIVE store_scores(_, _, _, _, _, _)
store_scores(acc, system, task, scores, kind, i) ==
    IF i > Min2(Len(task.score_keys), Len(task.score_indices))
    THEN acc
    ELSE IF task.score_indices[i] >= Len(scores)
    THEN [acc EXCEPT !.exc = kind \o " index out of range", !.ok = FALSE]
    ELSE store_scores(
            [acc EXCEPT !.score_result =
                Update(@, [key \in {key_of(system, task.score_keys[i])} |->
                              PyMax(scores[task.score_indices[i] + 1], Num(0))])],
            system, task, scores, kind, i + 1)

\* the body of the inner loop, for one (system, task) pair.  acc carries the
\* score_result so far, the files loaded so far and the exception, if any.
score_pair(acc, system, task, directory, groundtruth) ==
    IF ~path_exists(directory, pred_name(system, task.prefix))
    THEN acc
    ELSE
    LET truth == np_load(groundtruth, truth_name(system, task.prefix),
                         truth_path(system, task.prefix))
        pred == np_load(directory.files, pred_name(system, task.prefix),
                        pred_path(system, task.prefix))
        acc1 == [acc EXCEPT !.loaded = @ \cup {truth_path(system, task.prefix)}]
        acc2 == [acc1 EXCEPT !.loaded = @ \cup {pred_path(system, task.prefix)}]
    IN  IF ~truth.ok
        THEN [acc1 EXCEPT !.exc = truth.exc, !.ok = FALSE]
        ELSE IF ~pred.ok
        THEN [acc2 EXCEPT !.exc = pred.exc, !.ok = FALSE]
        ELSE
        LET scores == IF task.score_metric = "forecast"
                      THEN forecast(truth.val, pred.val, system).ret
                      ELSE LET r == reconstruction(truth.val, pred.val)
                           IN  IF r.ok THEN Ok(<<r.val>>) ELSE r
        IN  IF ~scores.ok
            THEN [acc2 EXCEPT !.exc = scores.exc, !.ok = FALSE]
            ELSE store_scores(acc2, system, task, scores.val,
                              IF task.score_metric = "forecast" THEN "list" ELSE "tuple",
                              1)

\* for prefix, score_metric, score_keys, score_indices in task_info: ...
RECURSIVE score_tasks(_, _, _, _, _)
score_tasks(acc, system, tasks, directory, groundtruth) ==
    IF tasks = <<>> \/ ~acc.ok
    THEN acc
    ELSE score_tasks(score_pair(acc, system, tasks[1], directory, groundtruth),
                     system, Tail(tasks), directory, groundtruth)

NoneNotIterable == "'NoneType' object is not iterable"

\* one iteration of the outer loop: every task of task_info, for one system
score_system(acc, system, task_info, directory, groundtruth) ==
    IF task_info.isNone
    THEN [acc EXCEPT !.exc = NoneNotIterable, !.ok = FALSE]
    ELSE score_tasks(acc, system, task_info.tasks, directory, groundtruth)

(***************************************************************************)
(* ScoringPipeline: score_submission                                       *)
(***************************************************************************)
\* if scores:
truthy(scores) == ~scores.isNone /\ DOMAIN scores.d # {}

\* faulty variant: the handler keeps the scores stored so far
except_handler_keeps_partial(e, partial) ==
    [score_status |-> INVALID,
     message |-> "Error " \o e \o " occurred while scoring",
     scores |-> Some(partial)]
\* except Exception as e: the message, the scores and the status it sets.
\* partial is the score_result the aggregator had built when it raised.
except_handler(e, partial) ==
    [score_status |-> INVALID,
     message |-> "Error " \o e \o " occurred while scoring",
     scores |-> None]

\* faulty variant: the scores are not merged into the record
result_record_no_merge(score_status, message, scores) ==
    [score_status |-> score_status, score_errors |-> message]
\* result = {"score_status": ..., "score_errors": ...}; if scores: result.update(scores)
result_record(score_status, message, scores) ==
    LET result == [score_status |-> score_status, score_errors |-> message]
    IN  IF truthy(scores) THEN Update(result, scores.d) ELSE result

UnboundMessage == "cannot access local variable 'message' where it is not associated with a value"

(***************************************************************************)
(* update_json and the file at results_path.  A Python dictionary keeps    *)
(* its keys in insertion order: here it is a sequence of (key, value)      *)
(* pairs.  A value is a float (Num, NaN, PInf, NInf), a string or None.    *)
(* The text of a file is the sequence of the members of its JSON object,   *)
(* every value spelled as json.dumps spells it: a sequence of characters   *)
(* and words.  The float v / Scale is spelled by the digits of v.          *)
(***************************************************************************)
Str(s) == [t |-> "str", s |-> s]
PyNone == [t |-> "none"]

Pair(key, value) == [key |-> key, value |-> value]

DigitChars == <<"0", "1", "2", "3", "4", "5", "6", "7", "8", "9">>

RECURSIVE Digits(_)
Digits(n) ==
    IF n < 10
    THEN <<DigitChars[n + 1]>>
    ELSE Digits(n \div 10) \o <<DigitChars[(n % 10) + 1]>>

DigitValue(c) == CHOOSE d \in 0..9 : DigitChars[d + 1] = c

RECURSIVE ParseDigits(_, _)
ParseDigits(text, n) ==
    IF text = <<>> THEN n ELSE ParseDigits(Tail(text), 10 * n + DigitValue(text[1]))

\* json.dumps of a value (allow_nan is left at its default)
json_encode(value) ==
    CASE value.t = "str" -> <<"\"", value.s, "\"">>
      [] value.t = "none" -> <<"null">>
      [] value.t = "nan" -> <<"NaN">>
      [] value.t = "inf" -> (IF value.v > 0 THEN <<"Infinity">> ELSE <<"-Infinity">>)
      [] value.t = "num" ->
            (IF value.v < 0 THEN <<"-">> \o Digits(0 - value.v) ELSE Digits(value.v))

\* json.load of the text of one value
json_decode(text) ==
    CASE text[1] = "\"" -> Str(text[2])
      [] text = <<"null">> -> PyNone
      [] text = <<"NaN">> -> NaN
      [] text = <<"Infinity">> -> PInf
      [] text = <<"-Infinity">> -> NInf
      [] text[1] = "-" -> Num(0 - ParseDigits(Tail(text), 0))
      [] OTHER -> Num(ParseDigits(text, 0))

HasKey(data, key) == \E i \in DOMAIN data : data[i].key = key

\* data[key] = value: the key keeps its place, a new key goes last
SetItem(data, key, value) ==
    IF HasKey(data, key)
    THEN [i \in DOMAIN data |-> IF data[i].key = key THEN Pair(key, value) ELSE data[i]]
    ELSE Append(data, Pair(key, value))

\* data.update(result)
RECURSIVE dict_update(_, _)
dict_update(data, result) ==
    IF result = <<>>
    THEN data
    ELSE dict_update(SetItem(data, result[1].key, result[1].value), Tail(result))

\* json.load(o): the members in the order of the text, a repeated key
\* keeping its last value
RECURSIVE json_load(_, _)
json_load(members, data) ==
    IF members = <<>>
    THEN data
    ELSE json_load(Tail(members),
                   SetItem(data, members[1].key, json_decode(members[1].value)))

\* json.dumps(data)
json_dumps(data) == [i \in DOMAIN data |-> Pair(data[i].key, json_encode(data[i].value))]

\* a file: size 0 (empty), or the text of a JSON object
NoFile == [exists |-> FALSE, empty |-> TRUE, members |-> <<>>]
EmptyFile == [exists |-> TRUE, empty |-> TRUE, members |-> <<>>]
JsonFile(members) == [exists |-> TRUE, empty |-> FALSE, members |-> members]

\* faulty variant: the record of the file is replaced, not merged
update_json_overwrite(file, result) ==
    IF ~file.exists
    THEN Raise(NoSuchFile("results.json"))
    ELSE Ok(JsonFile(json_dumps(result)))
\* update_json(results_path, result): the file afterwards, or the exception
\* of os.path.getsize
update_json(file, result) ==
    IF ~file.exists
    THEN Raise(NoSuchFile("results.json"))
    ELSE LET data == IF file.empty THEN <<>> ELSE json_load(file.members, <<>>)
         IN  Ok(JsonFile(json_dumps(dict_update(data, result))))

(***************************************************************************)
(* The inputs the model runs the program on                                *)
(***************************************************************************)
ArrA == <<<<1>>, <<2>>, <<3>>>>
ArrB == <<<<1>>, <<2>>, <<9>>>>
Arrays == {Zeros31, ArrA, ArrB}

\* one state over one time step: another shape than the ground truth's
Arr11 == <<<<2>>>>

File(name, content) == [name |-> name, isfile |-> TRUE, content |-> content]
Dir(name) == [name |-> name, isfile |-> FALSE, content |-> Zeros31]

Members ==
    {File(pred_name("Lorenz", "X1"), c) : c \in Arrays}
    \cup {File(pred_name("Lorenz", "X3"), c) : c \in {ArrA, ArrB}}
    \cup {File(pred_name("Lorenz", "X2"), ArrB),
          File(pred_name("Lorenz", "X2"), Arr11),
          File(<<"sub", "/">> \o pred_name("Rossler", "X1"), ArrA),
          File(pred_name("KS", "X1"), ArrA),
          File(pred_name("Pluto", "X1"), ArrA),
          File(<<"notes", ".", "txt">>, Zeros31),
          Dir(<<"sub">>)}

TarFiles ==
    {[readable |-> FALSE, members |-> <<>>]}
    \cup {[readable |-> TRUE, members |-> ms] :
            ms \in UNION {[1..n -> Members] : n \in 0..MaxMembers}}

Prefixes == {"X1", "X2", "X3", "X4", "X5", "X6", "X7", "X8", "X9"}

\* a ground-truth root holding array for every task of every catalog system
\* but the systems in absent
GroundTruth(array, absent) ==
    [name \in {truth_name(s, x) : s \in true_systems \ absent, x \in Prefixes} |-> array]

GroundTruths == {GroundTruth(a, absent) : a \in Arrays, absent \in {{}, {"Rossler"}}}

EvaluationIds == {"9615379", "9615532", "9999999"}
Statuses == {"VALIDATED", INVALID}

ForecastSystems == DOMAIN system_to_forecast \cup {"Pluto", ""}

(***************************************************************************)
(* State                                                                   *)
(***************************************************************************)
VARIABLES
    status,         \* score_submission's argument status
    tar_file,       \* the archive at predictions_path
    groundtruth,    \* the files below groundtruth_path: name -> array
    evaluation_id,  \* score_submission's argument evaluation_id
    predictions,    \* the directory "predictions" of the working directory
    pc,             \* where the invocation is
    todo,           \* the systems of unique_systems not yet iterated
    score_result,   \* calculate_all_scores' score_result
    loaded,         \* the paths np.load was called on
    calls,          \* which of untar and calculate_all_scores were called
    outcome,        \* what score_submission returned or raised
    fn_args,        \* arguments of a direct call of a function
    fn_ret,         \* what that call returned
    results_file    \* the file at results_path

vars == <<status, tar_file, groundtruth, evaluation_id, predictions, pc, todo,
          score_result, loaded, calls, outcome, fn_args, fn_ret, results_file>>

inputs == <<status, tar_file, groundtruth, evaluation_id>>

NoOutcome == [kind |-> "none", score_status |-> "", result |-> EmptyDict, exc |-> ""]
NoCall == [fn |-> ""]

Init ==
    /\ status \in Statuses
    /\ tar_file \in TarFiles
    /\ groundtruth \in GroundTruths
    /\ evaluation_id \in EvaluationIds
    /\ predictions = NoDirectory
    /\ results_file = NoFile
    /\ pc = "start"
    /\ todo = {}
    /\ score_result = EmptyDict
    /\ loaded = {}
    /\ calls = {}
    /\ outcome = NoOutcome
    /\ fn_args = NoCall
    /\ fn_ret = NoCall

\* the try block raised e: the handler, then lines 381-389
Caught(e, partial) ==
    LET h == except_handler(e, partial)
    IN  /\ pc' = "done"
        /\ outcome' = [kind |-> "return", score_status |-> h.score_status,
                       result |-> result_record(h.score_status, h.message, h.scores),
                       exc |-> e]

\* status == INVALID: score_status and scores are set, message is not, and
\* building result reads it
StatusInvalid ==
    /\ pc = "start"
    /\ status = INVALID
    /\ pc' = "done"
    /\ outcome' = [kind |-> "raise", score_status |-> "", result |-> EmptyDict,
                   exc |-> UnboundMessage]
    /\ UNCHANGED <<inputs, predictions, todo, score_result, loaded, calls,
                   fn_args, fn_ret, results_file>>

\* untar("predictions", tar_filename=predictions_path, pattern=".npy")
Untar ==
    /\ pc = "start"
    /\ status # INVALID
    /\ calls' = calls \cup {"untar"}
    /\ LET r == untar(predictions, tar_file, <<".", "npy">>)
       IN  IF r.ok
           THEN /\ predictions' = r.val
                /\ pc' = "untarred"
                /\ UNCHANGED outcome
           ELSE /\ Caught(r.exc, EmptyDict)
                /\ UNCHANGED predictions
    /\ UNCHANGED <<inputs, todo, score_result, loaded, fn_args, fn_ret, results_file>>

\* calculate_all_scores up to its loop: task_info, os.listdir, unique_systems
ListSystems ==
    /\ pc = "untarred"
    /\ calls' = calls \cup {"calculate_all_scores"}
    /\ IF predictions.exists
       THEN /\ todo' = unique_systems(predictions)
            /\ pc' = "loop"
            /\ UNCHANGED outcome
       ELSE /\ Caught(NoSuchFile(PredictionsDir), EmptyDict)
            /\ UNCHANGED todo
    /\ UNCHANGED <<inputs, predictions, score_result, loaded, fn_args, fn_ret, results_file>>

\* one iteration of "for system in unique_systems", in any order
ScoreSystem ==
    /\ pc = "loop"
    /\ \E system \in todo :
         LET acc == score_system(
                        [score_result |-> score_result, loaded |-> loaded,
                         exc |-> "", ok |-> TRUE],
                        system, task_info_of(evaluation_id), predictions, groundtruth)
         IN  /\ score_result' = acc.score_result
             /\ loaded' = acc.loaded
             /\ todo' = todo \ {system}
             /\ IF acc.ok
                THEN UNCHANGED <<pc, outcome>>
                ELSE Caught(acc.exc, acc.score_result)
    /\ UNCHANGED <<inputs, predictions, calls, fn_args, fn_ret, results_file>>

\* return score_result; score_status = SCORED; message = ""; lines 381-389
Return ==
    /\ pc = "loop"
    /\ todo = {}
    /\ pc' = "done"
    /\ outcome' = [kind |-> "return", score_status |-> SCORED,
                   result |-> result_record(SCORED, "", Some(score_result)),
                   exc |-> ""]
    /\ UNCHANGED <<inputs, predictions, todo, score_result, loaded, calls,
                   fn_args, fn_ret, results_file>>

Next == StatusInvalid \/ Untar \/ ListSystems \/ ScoreSystem \/ Return

Spec == Init /\ [][Next]_vars

(***************************************************************************)
(* forecast called directly, on every system name                          *)
(***************************************************************************)
InitForecast ==
    /\ status = "VALIDATED"
    /\ tar_file = [readable |-> FALSE, members |-> <<>>]
    /\ groundtruth = EmptyDict
    /\ evaluation_id = ""
    /\ predictions = NoDirectory
    /\ results_file = NoFile
    /\ pc = "call"
    /\ todo = {}
    /\ score_result = EmptyDict
    /\ loaded = {}
    /\ calls = {}
    /\ outcome = NoOutcome
    /\ fn_args \in [fn : {"forecast"}, truth : Arrays, prediction : Arrays,
                     system : ForecastSystems]
    /\ fn_ret = NoCall

CallForecast ==
    /\ pc = "call"
    /\ fn_args.fn = "forecast"
    /\ fn_ret' = forecast(fn_args.truth, fn_args.prediction, fn_args.system)
    /\ pc' = "returned"
    /\ UNCHANGED <<inputs, predictions, todo, score_result, loaded, calls,
                   outcome, fn_args, results_file>>

NextForecast == CallForecast

SpecForecast == InitForecast /\ [][NextForecast]_vars

(***************************************************************************)
(* calculate_all_scores called twice on the same ground truth, the same    *)
(* predictions directory and the same evaluation id.  fn_args keeps the    *)
(* directories as they were before the first call, fn_ret what the calls   *)
(* returned or raised so far.                                              *)
(***************************************************************************)
\* the predictions directories an archive of the model extracts to
Directories ==
    {untar_members(NoDirectory, t.members, <<".", "npy">>) :
        t \in {x \in TarFiles : x.readable}}

InitTwice ==
    /\ status = "VALIDATED"
    /\ tar_file = [readable |-> FALSE, members |-> <<>>]
    /\ groundtruth \in GroundTruths
    /\ evaluation_id \in EvaluationIds
    /\ predictions \in Directories
    /\ results_file = NoFile
    /\ pc = "start"
    /\ todo = {}
    /\ score_result = EmptyDict
    /\ loaded = {}
    /\ calls = {}
    /\ outcome = NoOutcome
    /\ fn_args = [fn |-> "calculate_all_scores", predictions |-> predictions,
                  groundtruth |-> groundtruth]
    /\ fn_ret = [fn |-> "calculate_all_scores", rets |-> <<>>]

\* the call returns or raises ret; the next call, if any, may start
AggregatorEnds(ret) ==
    /\ fn_ret' = [fn_ret EXCEPT !.rets = Append(@, ret)]
    /\ pc' = IF Len(fn_ret.rets) = 0 THEN "start" ELSE "done"

\* score_result = {}; task_info; os.listdir; unique_systems
AggregatorStarts ==
    /\ pc = "start"
    /\ score_result' = EmptyDict
    /\ IF predictions.exists
       THEN /\ todo' = unique_systems(predictions)
            /\ pc' = "loop"
            /\ UNCHANGED fn_ret
       ELSE /\ AggregatorEnds(Raise(NoSuchFile(PredictionsDir)))
            /\ UNCHANGED todo
    /\ UNCHANGED <<inputs, predictions, results_file, loaded, calls, outcome, fn_args>>

\* one iteration of "for system in unique_systems", in any order
AggregatorScoresSystem ==
    /\ pc = "loop"
    /\ \E system \in todo :
         LET acc == score_system(
                        [score_result |-> score_result, loaded |-> loaded,
                         exc |-> "", ok |-> TRUE],
                        system, task_info_of(evaluation_id), predictions, groundtruth)
         IN  /\ score_result' = acc.score_result
             /\ loaded' = acc.loaded
             /\ todo' = todo \ {system}
             /\ IF acc.ok
                THEN UNCHANGED <<pc, fn_ret>>
                ELSE AggregatorEnds(Raise(acc.exc))
    /\ UNCHANGED <<inputs, predictions, results_file, calls, outcome, fn_args>>

\* return score_result
AggregatorReturns ==
    /\ pc = "loop"
    /\ todo = {}
    /\ AggregatorEnds(Ok(score_result))
    /\ UNCHANGED <<inputs, predictions, results_file, todo, score_result, loaded,
                   calls, outcome, fn_args>>

NextTwice == AggregatorStarts \/ AggregatorScoresSystem \/ AggregatorReturns

SpecTwice == InitTwice /\ [][NextTwice]_vars

(***************************************************************************)
(* Two invocations of score_submission, for two submissions, run at the    *)
(* same time as two processes in one working directory.  The directory     *)
(* "predictions" belongs to the working directory; the arguments and the   *)
(* local variables belong to each process.                                 *)
(***************************************************************************)
Procs == {1, 2}

\* the archives of one member, and one that cannot be read
SmallArchives ==
    {[readable |-> FALSE, members |-> <<>>]}
    \cup {[readable |-> TRUE, members |-> <<member>>] : member \in Members}

InitConcurrent ==
    /\ status = "VALIDATED"
    /\ tar_file \in [Procs -> SmallArchives]
    /\ groundtruth = GroundTruth(ArrA, {})
    /\ evaluation_id = "9615379"
    /\ predictions = NoDirectory
    /\ results_file = NoFile
    /\ pc = [p \in Procs |-> "start"]
    /\ todo = [p \in Procs |-> {}]
    /\ score_result = [p \in Procs |-> EmptyDict]
    /\ loaded = [p \in Procs |-> {}]
    /\ calls = {}
    /\ outcome = [p \in Procs |-> NoOutcome]
    /\ fn_args = NoCall
    /\ fn_ret = NoCall

\* process p's try block raised e
ProcCaught(p, e, partial) ==
    LET h == except_handler(e, partial)
    IN  /\ pc' = [pc EXCEPT ![p] = "done"]
        /\ outcome' = [outcome EXCEPT ![p] =
                          [kind |-> "return", score_status |-> h.score_status,
                           result |-> result_record(h.score_status, h.message, h.scores),
                           exc |-> e]]

ProcUntar(p) ==
    /\ pc[p] = "start"
    /\ LET r == untar(predictions, tar_file[p], <<".", "npy">>)
       IN  IF r.ok
           THEN /\ predictions' = r.val
                /\ pc' = [pc EXCEPT ![p] = "untarred"]
                /\ UNCHANGED outcome
           ELSE /\ ProcCaught(p, r.exc, EmptyDict)
                /\ UNCHANGED predictions
    /\ UNCHANGED <<inputs, results_file, todo, score_result, loaded, calls,
                   fn_args, fn_ret>>

ProcListSystems(p) ==
    /\ pc[p] = "untarred"
    /\ IF predictions.exists
       THEN /\ todo' = [todo EXCEPT ![p] = unique_systems(predictions)]
            /\ pc' = [pc EXCEPT ![p] = "loop"]
            /\ UNCHANGED outcome
       ELSE /\ ProcCaught(p, NoSuchFile(PredictionsDir), EmptyDict)
            /\ UNCHANGED todo
    /\ UNCHANGED <<inputs, predictions, results_file, score_result, loaded, calls,
                   fn_args, fn_ret>>

ProcScoreSystem(p) ==
    /\ pc[p] = "loop"
    /\ \E system \in todo[p] :
         LET acc == score_system(
                        [score_result |-> score_result[p], loaded |-> loaded[p],
                         exc |-> "", ok |-> TRUE],
                        system, task_info_of(evaluation_id), predictions, groundtruth)
         IN  /\ score_result' = [score_result EXCEPT ![p] = acc.score_result]
             /\ loaded' = [loaded EXCEPT ![p] = acc.loaded]
             /\ todo' = [todo EXCEPT ![p] = @ \ {system}]
             /\ IF acc.ok
                THEN UNCHANGED <<pc, outcome>>
                ELSE ProcCaught(p, acc.exc, acc.score_result)
    /\ UNCHANGED <<inputs, predictions, results_file, calls, fn_args, fn_ret>>

ProcReturn(p) ==
    /\ pc[p] = "loop"
    /\ todo[p] = {}
    /\ pc' = [pc EXCEPT ![p] = "done"]
    /\ outcome' = [outcome EXCEPT ![p] =
                      [kind |-> "return", score_status |-> SCORED,
                       result |-> result_record(SCORED, "", Some(score_result[p])),
                       exc |-> ""]]
    /\ UNCHANGED <<inputs, predictions, results_file, todo, score_result, loaded,
                   calls, fn_args, fn_ret>>

NextConcurrent ==
    \E p \in Procs :
        ProcUntar(p) \/ ProcListSystems(p) \/ ProcScoreSystem(p) \/ ProcReturn(p)

SpecConcurrent == InitConcurrent /\ [][NextConcurrent]_vars

(***************************************************************************)
(* update_json called twice with the same result on a results file         *)
(***************************************************************************)
\* the score entries of a result, in the order they were stored
ScoreBodies ==
    {<<>>,
     <<Pair("Lorenz_stf_E1", Num(0)), Pair("Lorenz_ltf_E2", Num(100 * Scale))>>,
     <<Pair("Lorenz_stf_E1", NaN), Pair("Lorenz_ltf_E2", Num(7 * Scale))>>,
     <<Pair("Lorenz_recon_E3", Num(12345)), Pair("Lorenz_ltf_E4", Num(1))>>}

\* the records score_submission returns
ResultDicts ==
    {<<Pair("score_status", Str(SCORED)), Pair("score_errors", Str(""))>> \o body :
        body \in ScoreBodies}
    \cup {<<Pair("score_status", Str(INVALID)), Pair("score_errors", Str(message))>> :
            message \in {"Error " \o ReadError \o " occurred while scoring",
                         "Error " \o BroadcastError \o " occurred while scoring",
                         "Error " \o NoneNotIterable \o " occurred while scoring"}}

\* results files: none, an empty one, one holding {}, and records of
\* earlier steps and runs
ResultsFiles ==
    {NoFile,
     EmptyFile,
     JsonFile(<<>>),
     JsonFile(<<Pair("validation_status", <<"\"", "VALIDATED", "\"">>),
                Pair("validation_errors", <<"\"", "", "\"">>)>>),
     JsonFile(<<Pair("submission_id", <<"9", "7", "0", "1">>),
                Pair("auc", <<"null">>),
                Pair("offset", <<"-", "5">>)>>),
     JsonFile(<<Pair("score_status", <<"\"", "SCORED", "\"">>),
                Pair("Lorenz_stf_E1", <<"4", "2", "0", "0", "0">>),
                Pair("score_errors", <<"\"", "", "\"">>),
                Pair("Rossler_ltf_E2", <<"NaN">>)>>),
     JsonFile(<<Pair("score_errors", <<"\"", "old error", "\"">>),
                Pair("score_status", <<"\"", "INVALID", "\"">>)>>)}

InitUpdateJson ==
    /\ status = "VALIDATED"
    /\ tar_file = [readable |-> FALSE, members |-> <<>>]
    /\ groundtruth = EmptyDict
    /\ evaluation_id = ""
    /\ predictions = NoDirectory
    /\ results_file \in ResultsFiles
    /\ pc = "call"
    /\ todo = {}
    /\ score_result = EmptyDict
    /\ loaded = {}
    /\ calls = {}
    /\ outcome = NoOutcome
    /\ \E result \in ResultDicts :
          fn_args = [fn |-> "update_json", result |-> result, before |-> results_file]
    /\ fn_ret = [fn |-> "update_json", files |-> <<>>, exc |-> ""]

\* update_json(results_path, result), a first and a second time
CallUpdateJson ==
    /\ pc \in {"call", "once"}
    /\ LET r == update_json(results_file, fn_args.result)
       IN  IF r.ok
           THEN /\ results_file' = r.val
                /\ fn_ret' = [fn_ret EXCEPT !.files = Append(@, r.val)]
                /\ pc' = IF pc = "call" THEN "once" ELSE "twice"
           ELSE /\ fn_ret' = [fn_ret EXCEPT !.exc = r.exc]
                /\ pc' = "raised"
                /\ UNCHANGED results_file
    /\ UNCHANGED <<inputs, predictions, todo, score_result, loaded, calls, outcome,
                   fn_args>>

NextUpdateJson == CallUpdateJson

SpecUpdateJson == InitUpdateJson /\ [][NextUpdateJson]_vars

(***************************************************************************)
(* The four metrics called directly, with small k, modes and nf            *)
(***************************************************************************)
\* trajectories of three states over four time steps; they differ in the
\* first time column only
OdeT == <<<<1, 1, 1, 1>>, <<2, 2, 2, 2>>, <<3, 3, 3, 3>>>>
OdeP == <<<<5, 1, 1, 1>>, <<2, 2, 2, 2>>, <<3, 3, 3, 3>>>>

\* fields of four grid points over two and over one time step, and of two
\* grid points; no power spectrum of theirs has a zero in the bins used
PdeA == <<<<1, 2>>, <<0, 1>>, <<2, 0>>, <<0, 3>>>>
PdeB == <<<<1, 1>>, <<1, 1>>, <<2, 0>>, <<0, 3>>>>
PdeC == <<<<3>>, <<1>>, <<0>>, <<1>>>>
Pde2 == <<<<1>>, <<2>>>>

\* 4 x 4 fields flattened column-major, over one time step
Field(v0, v1, v4) ==
    [p \in 1..16 |-> <<CASE p = 1 -> v0 [] p = 2 -> v1 [] p = 5 -> v4 [] OTHER -> 0>>]
FieldA == Field(2, 0, 1)
FieldB == Field(3, 1, 0)

MetricCall(fn, truth, prediction, k, modes, nf) ==
    [fn |-> fn, truth |-> truth, prediction |-> prediction,
     k |-> k, modes |-> modes, nf |-> nf]

MetricCalls ==
    {MetricCall("ode_forecast", t, p, 1, modes, 0) :
        t \in Arrays \cup {OdeT, OdeP}, p \in Arrays \cup {OdeT, OdeP}, modes \in {1, 3}}
    \cup {MetricCall("reconstruction", t, p, 0, 0, 0) :
        t \in Arrays \cup {Arr11}, p \in Arrays \cup {Arr11}}
    \cup {MetricCall("pde_forecast", t, p, k, modes, 0) :
        t \in {PdeA, PdeB, PdeC, Pde2}, p \in {PdeA, PdeB, PdeC, Pde2},
        k \in {1, 2}, modes \in {0, 1}}
    \cup {MetricCall("pde_forecast", t, p, 3, modes, 0) :
        t \in {PdeC, Pde2}, p \in {PdeA, PdeB, PdeC, Pde2}, modes \in {0, 1}}
    \cup {MetricCall("pde_forecast_2d", t, p, 1, modes, nf) :
        t \in {FieldA, FieldB, PdeC}, p \in {FieldA, FieldB, PdeC},
        modes \in {0, 1}, nf \in {2, 4}}

NoLoop == Ok(NoSpectra)

InitMetric ==
    /\ status = "VALIDATED"
    /\ tar_file = [readable |-> FALSE, members |-> <<>>]
    /\ groundtruth = EmptyDict
    /\ evaluation_id = ""
    /\ predictions = NoDirectory
    /\ results_file = NoFile
    /\ pc = "call"
    /\ todo = {}
    /\ score_result = EmptyDict
    /\ loaded = {}
    /\ calls = {}
    /\ outcome = NoOutcome
    /\ fn_args \in MetricCalls
    /\ fn_ret = NoCall

\* what the call returned or raised (ret) and, for the spectral metrics, the
\* two long-time matrices its loop had built (spectra)
Returns(ret, spectra) ==
    /\ fn_ret' = [fn |-> fn_args.fn, ret |-> ret, spectra |-> spectra]
    /\ pc' = "returned"
    /\ UNCHANGED <<inputs, predictions, results_file, todo, score_result, loaded,
                   calls, outcome, fn_args>>

CallOdeForecast ==
    /\ pc = "call"
    /\ fn_args.fn = "ode_forecast"
    /\ Returns(ode_forecast(fn_args.truth, fn_args.prediction, fn_args.k,
                            fn_args.modes), NoLoop)

CallReconstruction ==
    /\ pc = "call"
    /\ fn_args.fn = "reconstruction"
    /\ Returns(reconstruction(fn_args.truth, fn_args.prediction), NoLoop)

CallPdeForecast ==
    /\ pc = "call"
    /\ fn_args.fn = "pde_forecast"
    /\ Returns(pde_forecast(fn_args.truth, fn_args.prediction, fn_args.k,
                            fn_args.modes),
               pde_spectra(fn_args.truth, fn_args.prediction, fn_args.k,
                           fn_args.modes, 1, NoSpectra))

CallPdeForecast2d ==
    /\ pc = "call"
    /\ fn_args.fn = "pde_forecast_2d"
    /\ Returns(pde_forecast_2d(fn_args.truth, fn_args.prediction, fn_args.k,
                               fn_args.modes, fn_args.nf),
               pde_spectra_2d(fn_args.truth, fn_args.prediction, fn_args.k,
                              fn_args.modes, fn_args.nf, 1, NoSpectra))

NextMetric ==
    CallOdeForecast \/ CallReconstruction \/ CallPdeForecast \/ CallPdeForecast2d

SpecMetric == InitMetric /\ [][NextMetric]_vars

(***************************************************************************)
(* Properties                                                              *)
(***************************************************************************)
StatusKeys == {"score_status", "score_errors"}

ScoreKeys(record) == DOMAIN record \ StatusKeys

Returned == pc = "done" /\ outcome.kind = "return"

\* the tasks of the evaluation queue, none when it has no mapping
TasksOf(id) ==
    IF id \in DOMAIN task_mapping
    THEN {task_mapping[id][i] : i \in DOMAIN task_mapping[id]}
    ELSE {}

AllTasks == UNION {TasksOf(id) : id \in DOMAIN task_mapping}

\* the system names that occur in the model's file names
SystemNames == true_systems \cup {"Pluto", "notes.txt", "sub"}

\* the prediction file of the pair is in the predictions directory
PredPresent(system, task) ==
    predictions.exists /\ pred_name(system, task.prefix) \in DOMAIN predictions.files

TruthPresent(system, task) == truth_name(system, task.prefix) \in DOMAIN groundtruth

KeysOfPair(system, task) ==
    {key_of(system, task.score_keys[i]) : i \in DOMAIN task.score_keys}

\* C1: with status INVALID the call returns (INVALID, result), result being
\* exactly score_status INVALID and score_errors "Submission was not scored
\* due to INVALID status", and neither untar nor calculate_all_scores is called.
C1_InvalidStatusReturnsRecord ==
    (pc = "done" /\ status = INVALID) =>
        /\ outcome.kind = "return"
        /\ outcome.score_status = INVALID
        /\ DOMAIN outcome.result = StatusKeys
        /\ outcome.result["score_status"] = INVALID
        /\ outcome.result["score_errors"] =
               "Submission was not scored due to INVALID status"
        /\ calls = {}

\* C2: with a status other than INVALID, an exception raised by untar or by
\* calculate_all_scores, at any (system, task) pair, is caught: the call
\* returns (INVALID, result), result holding exactly score_status INVALID and
\* score_errors "Error <exception text> occurred while scoring", no score key.
C2_ExceptionGivesInvalidWithoutScores ==
    (pc = "done" /\ status # INVALID /\ outcome.exc # "") =>
        /\ outcome.kind = "return"
        /\ outcome.score_status = INVALID
        /\ DOMAIN outcome.result = StatusKeys
        /\ outcome.result["score_status"] = INVALID
        /\ outcome.result["score_errors"] =
               "Error " \o outcome.exc \o " occurred while scoring"

\* an exception was raised after earlier pairs had stored scores
C2_Witness ==
    /\ pc = "done"
    /\ status # INVALID
    /\ outcome.exc # ""
    /\ DOMAIN score_result # {}

\* C3: every returned record holds score_status in {SCORED, INVALID} and
\* score_errors; score_status is SCORED exactly when the status was not
\* INVALID and no step raised, and then score_errors is "" and the other
\* keys are exactly the pairs of the mapping calculate_all_scores returned.
C3_ReturnedRecordShape ==
    Returned =>
        /\ StatusKeys \subseteq DOMAIN outcome.result
        /\ outcome.result["score_status"] \in {SCORED, INVALID}
        /\ outcome.result["score_status"] = outcome.score_status
        /\ (outcome.result["score_status"] = SCORED)
               <=> (status # INVALID /\ outcome.exc = "")
        /\ outcome.result["score_status"] = SCORED =>
               /\ outcome.result["score_errors"] = ""
               /\ ScoreKeys(outcome.result) = DOMAIN score_result
               /\ \A key \in DOMAIN score_result :
                      outcome.result[key] = score_result[key]

\* a SCORED record that carries scores
C3_Witness ==
    /\ Returned
    /\ outcome.score_status = SCORED
    /\ ScoreKeys(outcome.result) # {}

\* C4: every score value calculate_all_scores stores, and so every score
\* value of a SCORED record, is a number >= 0.
C4_ScoresNonNegative ==
    /\ \A key \in DOMAIN score_result :
          score_result[key].t = "num" /\ score_result[key].v >= 0
    /\ (Returned /\ outcome.score_status = SCORED) =>
          \A key \in ScoreKeys(outcome.result) :
              outcome.result[key].t = "num" /\ outcome.result[key].v >= 0

\* C5: a record holds the key <system>_<key> only if, for the task declaring
\* that key, the prediction file <system>_<prefix>prediction.npy is in the
\* predictions directory and Test_<system>/<prefix>test.npy is below the
\* ground-truth root.
C5_KeyOnlyWithBothFiles ==
    Returned =>
        /\ \A system \in SystemNames : \A task \in AllTasks :
              (KeysOfPair(system, task) \cap DOMAIN outcome.result # {}) =>
                  PredPresent(system, task) /\ TruthPresent(system, task)
        /\ \A key \in ScoreKeys(outcome.result) :
              \E system \in SystemNames : \E task \in AllTasks :
                  key \in KeysOfPair(system, task)

\* a record with a score key
C5_Witness ==
    /\ Returned
    /\ \E system \in SystemNames : \E task \in AllTasks :
          /\ KeysOfPair(system, task) \subseteq DOMAIN outcome.result
          /\ PredPresent(system, task)
          /\ TruthPresent(system, task)

\* the systems calculate_all_scores iterates: catalog systems that are the
\* part before the first "_" of a file name of the predictions directory
Scorable == {system \in true_systems :
                \E f \in DOMAIN predictions.files : split_first(f) = <<system>>}

\* C6: score keys exist only for systems of the catalog of six that are a
\* file-name prefix in the predictions directory; files of other systems
\* cause no error and no key, and when only such files are present
\* score_submission returns SCORED with score_status and score_errors alone.
OnlyOtherSystems ==
    /\ predictions.exists
    /\ DOMAIN predictions.files # {}
    /\ \A f \in DOMAIN predictions.files :
          \A system \in true_systems : split_first(f) # <<system>>

C6_OnlyCatalogSystemsScored ==
    /\ Cardinality(true_systems) = 6
    /\ \A system \in SystemNames \ Scorable : \A task \in AllTasks :
          KeysOfPair(system, task) \cap DOMAIN score_result = {}
    /\ \A key \in DOMAIN score_result :
          \E system \in Scorable : \E task \in AllTasks :
              key \in KeysOfPair(system, task)
    /\ (pc = "done" /\ status # INVALID /\ OnlyOtherSystems) =>
          /\ outcome.kind = "return"
          /\ outcome.score_status = SCORED
          /\ DOMAIN outcome.result = StatusKeys
          /\ outcome.result["score_status"] = SCORED
          /\ outcome.result["score_errors"] = ""

\* the run ended with none but files of systems outside the catalog
C6_Witness == pc = "done" /\ status # INVALID /\ OnlyOtherSystems

\* C7: for a scorable system and a task whose prediction file does not
\* exist, the pair is skipped: no key, no error, the ground-truth file is
\* not loaded, and the other pairs are scored all the same.
SkippedPairs ==
    {p \in Scorable \X TasksOf(evaluation_id) : ~PredPresent(p[1], p[2])}

PresentPairs ==
    {p \in Scorable \X TasksOf(evaluation_id) : PredPresent(p[1], p[2])}

C7_MissingPredictionSkipped ==
    /\ \A p \in SkippedPairs :
          /\ truth_path(p[1], p[2].prefix) \notin loaded
          /\ KeysOfPair(p[1], p[2]) \cap DOMAIN score_result = {}
    /\ (Returned /\ outcome.score_status = SCORED) =>
          \A p \in PresentPairs : KeysOfPair(p[1], p[2]) \subseteq DOMAIN score_result
    /\ (pc = "done" /\ status # INVALID /\ predictions.exists
            /\ evaluation_id \in DOMAIN task_mapping /\ PresentPairs = {}) =>
          outcome.kind = "return" /\ outcome.score_status = SCORED

\* a SCORED record where one pair of a system was scored and another skipped
C7_Witness ==
    /\ Returned
    /\ outcome.score_status = SCORED
    /\ \E p \in PresentPairs : \E q \in SkippedPairs :
          p[1] = q[1] /\ KeysOfPair(p[1], p[2]) \subseteq DOMAIN outcome.result

\* C8 as stated: an evaluation id without a task mapping is not represented
\* in the result record: score_submission neither turns it into an INVALID
\* record with a score_errors message nor reports SCORED.
NoMapping == evaluation_id \notin DOMAIN task_mapping

C8_NoMappingNotInRecord ==
    (pc = "done" /\ status # INVALID /\ NoMapping) =>
        /\ ~(outcome.kind = "return" /\ outcome.score_status = SCORED)
        /\ ~(outcome.kind = "return" /\ outcome.score_status = INVALID
               /\ outcome.exc = NoneNotIterable)

\* C8 as amended: with no task mapping for the evaluation id (status not
\* INVALID, predictions directory extracted), the failure to iterate the
\* missing task list is caught like any other: if a catalog system has a
\* file in the predictions directory the call returns INVALID with
\* score_errors "Error 'NoneType' object is not iterable occurred while
\* scoring" and no score key; if none has, it returns SCORED with no score key.
C8_NoMappingCaughtOrScored ==
    (pc = "done" /\ status # INVALID /\ NoMapping /\ predictions.exists) =>
        /\ outcome.kind = "return"
        /\ DOMAIN outcome.result = StatusKeys
        /\ IF Scorable # {}
           THEN /\ outcome.score_status = INVALID
                /\ outcome.result["score_status"] = INVALID
                /\ outcome.result["score_errors"] =
                       "Error 'NoneType' object is not iterable occurred while scoring"
           ELSE /\ outcome.score_status = SCORED
                /\ outcome.result["score_status"] = SCORED
                /\ outcome.result["score_errors"] = ""

\* an unmapped evaluation id met a catalog system
C8_Witness ==
    /\ pc = "done"
    /\ status # INVALID
    /\ NoMapping
    /\ Scorable # {}
    /\ outcome.score_status = INVALID

\* C9: forecast on a system name that is no key of the dispatch table
\* returns an empty list, raises nothing and calls no metric; on a system of
\* the table it returns the two-element list of that system's metric.
C9_ForecastDispatch ==
    (pc = "returned" /\ fn_args.fn = "forecast") =>
        LET t == fn_args.truth
            p == fn_args.prediction
            s == fn_args.system
        IN  /\ s \notin {"doublependulum", "Lorenz", "Rossler", "KS", "Lorenz96",
                          "Kolmogorov"} =>
                   fn_ret.ret.ok /\ fn_ret.ret.val = <<>> /\ fn_ret.metric = ""
            /\ s \in {"doublependulum", "Lorenz", "Rossler"} =>
                   fn_ret.ret = ode_forecast(t, p, 20, 1000)
                   /\ fn_ret.metric = "ode_forecast"
            /\ s = "KS" =>
                   fn_ret.ret = pde_forecast(t, p, 20, 100)
                   /\ fn_ret.metric = "pde_forecast"
            /\ s = "Lorenz96" =>
                   fn_ret.ret = pde_forecast(t, p, 20, 30)
                   /\ fn_ret.metric = "pde_forecast"
            /\ s = "Kolmogorov" =>
                   fn_ret.ret = pde_forecast_2d(t, p, 20, 30, 128)
                   /\ fn_ret.metric = "pde_forecast_2d"
            /\ (s \in DOMAIN system_to_forecast /\ fn_ret.ret.ok) =>
                   Len(fn_ret.ret.val) = 2

\* forecast returned for a system outside the table
C9_Witness ==
    /\ pc = "returned"
    /\ fn_args.fn = "forecast"
    /\ fn_args.system = "Pluto"
    /\ fn_ret.ret.ok

\* the value a score is stored as: 0 for a negative number, else itself
Clamp0(x) == IF (x.t = "num" /\ x.v < 0) \/ x = NInf THEN Num(0) ELSE x

\* the metric's result sequence for a pair whose two files exist
MetricScores(system, task) ==
    LET truth == groundtruth[truth_name(system, task.prefix)]
        pred == predictions.files[pred_name(system, task.prefix)]
    IN  IF task.score_metric = "forecast"
        THEN CallMetric(system_to_forecast[system], truth, pred).val
        ELSE <<reconstruction(truth, pred).val>>

\* C10: for each scored pair and each position i of the task's output keys,
\* the key built from the system and output_keys[i] holds
\* max(scores[score_indices[i]], 0), scores being the metric's result
\* (forecast: short-time, long-time; reconstruction: one score); every
\* selected scalar is clamped on its own, and a forecast task declaring only
\* index 1 emits only the long-time score.
C10_KeyHoldsClampedSelectedScore ==
    /\ \A system \in true_systems : \A task \in TasksOf(evaluation_id) :
          \A i \in DOMAIN task.score_keys :
              key_of(system, task.score_keys[i]) \in DOMAIN score_result =>
                  /\ score_result[key_of(system, task.score_keys[i])] =
                         Clamp0(MetricScores(system, task)[task.score_indices[i] + 1])
                  /\ KeysOfPair(system, task) \subseteq DOMAIN score_result
    /\ \A key \in DOMAIN score_result :
          \E system \in true_systems : \E task \in TasksOf(evaluation_id) :
              key \in KeysOfPair(system, task)

\* a forecast task declaring only index 1 stored a positive long-time score
\* although the short-time score of the same call was negative
C10_Witness ==
    /\ Returned
    /\ evaluation_id = "9615532"
    /\ "Lorenz_ltf_E4" \in DOMAIN outcome.result
    /\ outcome.result["Lorenz_ltf_E4"].v > 0
    /\ MetricScores("Lorenz", task_mapping["9615532"][2])[1].v < 0

(***************************************************************************)
(* Properties of the metrics called directly                               *)
(***************************************************************************)
MetricReturned(fn) == pc = "returned" /\ fn_args.fn = fn

SameShape(X, Y) == Rows(X) = Rows(Y) /\ Cols(X) = Cols(Y)

Hundred == Num(100 * Scale)

\* C12: for every valid pair with prediction equal to truth, reconstruction
\* returns 100 and each forecast metric returns short-time score 100 and
\* long-time score 100 (a pair is valid when the metric returns on it).
C12_IdenticalPairScores100 ==
    (pc = "returned" /\ fn_args.prediction = fn_args.truth /\ fn_ret.ret.ok) =>
        IF fn_args.fn = "reconstruction"
        THEN fn_ret.ret.val = Hundred
        ELSE fn_ret.ret.val = <<Hundred, Hundred>>

\* the last modes time columns of the final 3 state rows of X
LongTimeWindow(X, modes) ==
    [i \in 1..3 |->
        SubSeq(X[Rows(X) - 3 + i], Max2(Cols(X) - modes, 0) + 1, Cols(X))]

\* the long-time score of the histograms of two such windows
WindowScore(wt, wp) ==
    LET eltx == HistError(Histogram(wt[1], -20, 20), Histogram(wp[1], -20, 20))
        elty == HistError(Histogram(wt[2], -20, 20), Histogram(wp[2], -20, 20))
        eltz == HistError(Histogram(wt[3], 0, 50), Histogram(wp[3], 0, 50))
    IN  Score100(Num((eltx.v + elty.v + eltz.v) \div 3))

\* C17: ode_forecast computes its long-time score from exactly the entries
\* in the last modes time columns of the final 3 state rows of truth and of
\* prediction (x, y, z in that order), for every array shape.
C17_LongTimeFromLastColumns ==
    (MetricReturned("ode_forecast")
        /\ Rows(fn_args.truth) >= 3 /\ Rows(fn_args.prediction) >= 3) =>
        /\ fn_ret.ret.ok
        /\ fn_ret.ret.val[2] =
               WindowScore(LongTimeWindow(fn_args.truth, fn_args.modes),
                           LongTimeWindow(fn_args.prediction, fn_args.modes))

\* the logarithms of the 2 * modes + 1 central bins of the shifted spectrum
\* (its indices centre - modes .. centre + modes, centre being half its
\* length): the frequencies -modes .. modes of the spectrum, in that order
CentralLogBins(spectrum, modes) ==
    [r \in 1..(2 * modes + 1) |->
        FLog(spectrum[((r - 1 - modes) % Len(spectrum)) + 1])]

\* time column c (from 0) of X
TimeColumn(X, c) == [i \in 1..Rows(X) |-> X[i][c + 1]]

\* C18: pde_forecast_2d takes, from the 2-D power spectrum of each of the
\* last k time columns, the single column at spatial index grid_size / 2
\* and crops it to the 2 * modes + 1 entries centred on index grid_size / 2.
C18_SpectrumColumnAtCentre ==
    (MetricReturned("pde_forecast_2d")
        /\ Rows(fn_args.truth) = fn_args.nf * fn_args.nf
        /\ SameShape(fn_args.truth, fn_args.prediction)
        /\ fn_args.nf >= 2 * fn_args.modes + 1
        /\ Cols(fn_args.truth) >= fn_args.k) =>
        LET nf == fn_args.nf
            n == Cols(fn_args.truth)
            Crop(X, j) == CentralLogBins(
                              fft2_power_column(TimeColumn(X, n - j), nf, nf \div 2),
                              fn_args.modes)
        IN  /\ fn_ret.spectra.ok
            /\ \A j \in 1..fn_args.k :
                  /\ fn_ret.spectra.val.pt[j] = Crop(fn_args.truth, j)
                  /\ fn_ret.spectra.val.pp[j] = Crop(fn_args.prediction, j)

\* column j of a long-time matrix of pde_forecast, built from time column c
SpectrumColumnIs(column, X, c, modes) ==
    /\ Len(column) = 2 * modes + 1
    /\ column = CentralLogBins(fft_power(TimeColumn(X, c)), modes)

\* C19 as stated: for every call of pde_forecast on arrays of shape (m, n)
\* the two long-time matrices have exactly k columns and 2 * modes + 1 rows;
\* column j is built from time column n - j, so that the k distinct last
\* time columns are each used once, most recent first, and the rows are the
\* shifted-spectrum bins floor(m / 2) - modes through floor(m / 2) + modes.
C19_LongTimeMatricesEveryCall ==
    (MetricReturned("pde_forecast")
        /\ SameShape(fn_args.truth, fn_args.prediction)) =>
        LET n == Cols(fn_args.truth)
        IN  /\ fn_ret.spectra.ok
            /\ Len(fn_ret.spectra.val.pt) = fn_args.k
            /\ Len(fn_ret.spectra.val.pp) = fn_args.k
            /\ \A j \in 1..fn_args.k :
                  /\ n - j >= 0
                  /\ SpectrumColumnIs(fn_ret.spectra.val.pt[j], fn_args.truth,
                                      n - j, fn_args.modes)
                  /\ SpectrumColumnIs(fn_ret.spectra.val.pp[j], fn_args.prediction,
                                      n - j, fn_args.modes)

\* C19 as amended: on arrays of shape (m, n) with m >= 2 * modes + 1 and
\* n >= k the above holds.  Otherwise: with m < 2 * modes + 1 the first
\* np.column_stack raises; else with k > 2 * n the index n - j leaves the
\* array and raises; else (n < k <= 2 * n) the matrices have k columns but
\* the negative index n - j counts from the end, so column j is built from
\* time column (n - j) mod n and time columns are used again.
C19_LongTimeMatricesLargeEnough ==
    (MetricReturned("pde_forecast")
        /\ SameShape(fn_args.truth, fn_args.prediction)) =>
        LET m == Rows(fn_args.truth)
            n == Cols(fn_args.truth)
            k == fn_args.k
            modes == fn_args.modes
        IN  IF m < 2 * modes + 1
            THEN ~fn_ret.spectra.ok /\ fn_ret.spectra.exc = ConcatError
                 /\ fn_ret.ret = fn_ret.spectra
            ELSE IF k > 2 * n
            THEN ~fn_ret.spectra.ok
                 /\ fn_ret.spectra.exc = IndexErrorText(0 - n - 1, 1, n)
                 /\ fn_ret.ret = fn_ret.spectra
            ELSE /\ fn_ret.spectra.ok
                 /\ Len(fn_ret.spectra.val.pt) = k
                 /\ Len(fn_ret.spectra.val.pp) = k
                 /\ \A j \in 1..k :
                       /\ n >= k => (n - j) % n = n - j
                       /\ SpectrumColumnIs(fn_ret.spectra.val.pt[j], fn_args.truth,
                                           (n - j) % n, modes)
                       /\ SpectrumColumnIs(fn_ret.spectra.val.pp[j],
                                           fn_args.prediction, (n - j) % n, modes)

\* two distinct time columns were stacked, most recent first
C19_Witness ==
    /\ MetricReturned("pde_forecast")
    /\ fn_args.truth = PdeA
    /\ fn_args.prediction = PdeB
    /\ fn_args.k = 2
    /\ fn_args.modes = 1
    /\ fn_ret.ret.ok
    /\ fn_ret.spectra.val.pt[1] # fn_ret.spectra.val.pt[2]

(***************************************************************************)
(* Properties of the pipeline: shapes, file names, zero norms              *)
(***************************************************************************)
TruthOf(p) == groundtruth[truth_name(p[1], p[2].prefix)]
PredOf(p) == predictions.files[pred_name(p[1], p[2].prefix)]

\* the pairs whose two files exist and hold arrays of different shapes
MismatchedPairs ==
    {p \in PresentPairs : TruthPresent(p[1], p[2]) /\ ~SameShape(TruthOf(p), PredOf(p))}

\* C13: whenever the prediction array's shape differs from the truth
\* array's shape for a scored (system, task) pair, the computation fails: no
\* score is ever produced from a mismatched pair, and score_submission
\* returns score_status INVALID with a non-empty score_errors and no score key.
C13_ShapeMismatchFails ==
    /\ \A p \in MismatchedPairs : KeysOfPair(p[1], p[2]) \cap DOMAIN score_result = {}
    /\ (pc = "done" /\ status # INVALID /\ MismatchedPairs # {}) =>
          /\ outcome.kind = "return"
          /\ outcome.score_status = INVALID
          /\ outcome.result["score_errors"] # ""
          /\ ScoreKeys(outcome.result) = {}

\* the part of a file name that precedes its first "_" (the whole name when
\* it has none) is the string system
BeforeFirstUnderscore(f, system) ==
    \E i \in 1..(Len(f) + 1) :
        /\ i = Len(f) + 1 \/ f[i] = "_"
        /\ \A h \in 1..(i - 1) : f[h] # "_"
        /\ Join(SubSeq(f, 1, i - 1)) = system

PresentSystems ==
    {system \in true_systems :
        \E f \in DOMAIN predictions.files : BeforeFirstUnderscore(f, system)}

\* C16: the systems calculate_all_scores iterates are the catalog systems
\* that are the part of a predictions-directory file name preceding its
\* first "_"; for a pair (system, prefix) the prediction is read only from
\* predictions/<system>_<prefix>prediction.npy and the ground truth only from
\* <groundtruth root>/Test_<system>/<prefix>test.npy; no other file is loaded.
C16_FilesReadByConvention ==
    /\ pc = "loop" => todo \subseteq PresentSystems
    /\ (pc = "done" /\ Returned /\ outcome.score_status = SCORED
            /\ evaluation_id \in DOMAIN task_mapping) =>
          \A system \in PresentSystems : \A task \in TasksOf(evaluation_id) :
              PredPresent(system, task) =>
                  KeysOfPair(system, task) \subseteq DOMAIN outcome.result
    /\ \A path \in loaded :
          \E system \in PresentSystems : \E task \in TasksOf(evaluation_id) :
              /\ <<system, "_", task.prefix \o "prediction", ".", "npy">>
                     \in DOMAIN predictions.files
              /\ \/ path = "predictions/" \o system \o "_" \o task.prefix
                               \o "prediction.npy"
                 \/ path = "groundtruth/Test_" \o system \o "/" \o task.prefix
                               \o "test.npy"
    /\ \A system \in true_systems : \A task \in TasksOf(evaluation_id) :
          (KeysOfPair(system, task) \cap DOMAIN score_result # {}) =>
              /\ ("predictions/" \o system \o "_" \o task.prefix \o "prediction.npy")
                     \in loaded
              /\ ("groundtruth/Test_" \o system \o "/" \o task.prefix \o "test.npy")
                     \in loaded

\* a system in a subfolder of the archive was scored from its two files
C16_Witness ==
    /\ Returned
    /\ "Rossler_stf_E1" \in DOMAIN outcome.result
    /\ loaded = {"predictions/Rossler_X1prediction.npy",
                 "groundtruth/Test_Rossler/X1test.npy"}

OdeSystems == {"doublependulum", "Lorenz", "Rossler"}

ZeroNorm(X, k) == SumSqRows(FirstCols(X, k)) = 0

\* the forecast pairs whose two files exist, the first k time columns of
\* the truth having zero norm
ZeroTruthPairs ==
    {p \in PresentPairs :
        /\ p[2].score_metric = "forecast"
        /\ TruthPresent(p[1], p[2])
        /\ ZeroNorm(TruthOf(p), system_to_forecast[p[1]].k)}

C11_TwiceSameMapping ==
    /\ predictions = fn_args.predictions
    /\ groundtruth = fn_args.groundtruth
    /\ Len(fn_ret.rets) = 2 =>
          /\ fn_ret.rets[1].ok <=> fn_ret.rets[2].ok
          /\ fn_ret.rets[1].ok =>
                /\ DOMAIN fn_ret.rets[1].val = DOMAIN fn_ret.rets[2].val
                /\ \A key \in DOMAIN fn_ret.rets[1].val :
                      fn_ret.rets[1].val[key] = fn_ret.rets[2].val[key]

\* both calls iterated two systems and returned scores
C11_Witness ==
    /\ Len(fn_ret.rets) = 2
    /\ fn_ret.rets[1].ok
    /\ fn_ret.rets[2].ok
    /\ Cardinality(unique_systems(predictions)) = 2
    /\ Cardinality(DOMAIN fn_ret.rets[2].val) = 4

(***************************************************************************)
(* Properties of two concurrent invocations                                *)
(***************************************************************************)
\* the files the archive of process p extracts, by itself
OwnFiles(p) == untar_members(NoDirectory, tar_file[p].members, <<".", "npy">>).files

\* C14: when two invocations of score_submission for different submissions
\* run concurrently, neither reads nor writes the other's extracted
\* prediction files: each extracts into, lists and scores a directory that
\* holds only the files of its own archive, under every interleaving.
C14_OwnFilesOnly ==
    \A p \in Procs :
        /\ pc[p] \in {"untarred", "loop"} =>
              \A f \in DOMAIN predictions.files :
                  f \in DOMAIN OwnFiles(p) /\ predictions.files[f] = OwnFiles(p)[f]
        /\ \A key \in DOMAIN score_result[p] :
              \E f \in DOMAIN OwnFiles(p) :
                  key \in KeysOfPair(Join(split_first(f)), task_mapping[evaluation_id][1])

(***************************************************************************)
(* Properties of update_json                                               *)
(***************************************************************************)
KeysOfFile(file) == {file.members[i].key : i \in DOMAIN file.members}

\* the text of the value of key in the file
TextOf(file, key) ==
    file.members[CHOOSE i \in DOMAIN file.members : file.members[i].key = key].value

KeysOfDict(data) == {data[i].key : i \in DOMAIN data}

ValueOf(data, key) == data[CHOOSE i \in DOMAIN data : data[i].key = key].value

\* C15: update_json(results_path, result) merges non-destructively: after
\* the call the on-disk record contains every key of the previous record
\* that is not a key of result with its value unchanged, and every key of
\* result with result's value; an existing empty file is treated as an empty
\* record; applying the same update twice leaves the same record as once.
C15_UpdateJsonMerges ==
    /\ pc \in {"once", "twice"} =>
          /\ fn_args.before.exists
          /\ results_file.exists /\ ~results_file.empty
          /\ KeysOfFile(results_file) =
                 KeysOfFile(fn_args.before) \cup KeysOfDict(fn_args.result)
          /\ Len(results_file.members) = Cardinality(KeysOfFile(results_file))
          /\ \A key \in KeysOfFile(fn_args.before) \ KeysOfDict(fn_args.result) :
                 TextOf(results_file, key) = TextOf(fn_args.before, key)
          /\ \A key \in KeysOfDict(fn_args.result) :
                 json_decode(TextOf(results_file, key)) = ValueOf(fn_args.result, key)
    /\ pc = "twice" => results_file = fn_ret.files[1]
    /\ pc = "raised" => ~fn_args.before.exists /\ results_file = fn_args.before

\* a record with keys of its own and stale scores was updated twice
C15_Witness ==
    /\ pc = "twice"
    /\ "Rossler_ltf_E2" \in KeysOfFile(fn_args.before)
    /\ "Lorenz_stf_E1" \in KeysOfDict(fn_args.result)
    /\ TextOf(results_file, "Lorenz_stf_E1") # TextOf(fn_args.before, "Lorenz_stf_E1")
    /\ TextOf(results_file, "Rossler_ltf_E2") = <<"NaN">>

(***************************************************************************)
(* The other programs of src/bin.  Each is run on its own; the variables   *)
(* of dynamic_challenge_score's pipeline then keep their initial values.   *)
(* fn_args holds the arguments and the environment the program starts in,  *)
(* fn_ret its local variables and its effects so far.                      *)
(***************************************************************************)
pipeline == <<status, tar_file, groundtruth, evaluation_id, predictions, todo,
              score_result, loaded, calls, outcome, results_file>>

PipelineUnused ==
    /\ status = "VALIDATED"
    /\ tar_file = [readable |-> FALSE, members |-> <<>>]
    /\ groundtruth = EmptyDict
    /\ evaluation_id = ""
    /\ predictions = NoDirectory
    /\ results_file = NoFile
    /\ todo = {}
    /\ score_result = EmptyDict
    /\ loaded = {}
    /\ calls = {}
    /\ outcome = NoOutcome

\* a local variable that was not assigned yet
Unbound == [t |-> "unbound"]
PyInt(n) == [t |-> "int", v |-> n]

(***************************************************************************)
(* model_to_data_score.py: score_submission                                *)
(***************************************************************************)
\* pattern in name
contains(name, pattern) ==
    \E i \in 0..(Len(name) - Len(pattern)) :
        SubSeq(name, i + 1, i + Len(pattern)) = pattern

\* zip_info.is_dir(): the member's name ends with "/"
is_dir(zip_info) == zip_info # <<>> /\ zip_info[Len(zip_info)] = "/"

\* glob.glob(os.path.join(os.getcwd(), "*.csv")): "*" matches no leading "."
glob_csv(cwd) == {f \in cwd : endswith(f, <<".", "csv">>) /\ f[1] # "."}

BadZipFile == "File is not a zip file"

ZipMembers ==
    {<<"predictions", ".", "csv">>,
     <<"sub", "/", "more", ".", "csv">>,
     <<"sub", "/">>,
     <<"readme", ".", "txt">>,
     <<".", "csv">>}

MaxZipMembers == 2

M2dArgs ==
    [fn : {"score_submission"},
     predictions_path : {<<"tmp", "/", "predictions", ".", "zip">>,
                         <<"tmp", ".", "zip", "/", "predictions", ".", "csv">>},
     readable : BOOLEAN,
     members : UNION {[1..n -> ZipMembers] : n \in 0..MaxZipMembers},
     status : {"VALIDATED", "ACCEPTED", INVALID},
     cwd : {{}, {<<"results", ".", "json">>}, {<<"old", ".", "csv">>}}]

InitM2d ==
    /\ PipelineUnused
    /\ pc = "call"
    /\ fn_args \in M2dArgs
    /\ fn_ret = [fn |-> "score_submission", cwd |-> fn_args.cwd, infolist |-> <<>>,
                 predictions_files |-> {}, score_status |-> Unbound,
                 message |-> Unbound, score1 |-> Unbound, score2 |-> Unbound,
                 score3 |-> Unbound, result |-> EmptyDict, exc |-> ""]

\* lines 25-33: the INVALID branch, or the test for ".zip" and ZipFile(...)
M2dBegin ==
    /\ pc = "call"
    /\ IF fn_args.status = INVALID
       THEN /\ fn_ret' = [fn_ret EXCEPT
                              !.score_status = Str(INVALID),
                              !.score1 = PyNone, !.score2 = PyNone, !.score3 = PyNone,
                              !.message = Str("Submission was not scored due to "
                                              \o INVALID \o " status")]
            /\ pc' = "result"
       ELSE IF contains(basename(fn_args.predictions_path), <<".", "zip">>)
            THEN IF fn_args.readable
                 THEN /\ fn_ret' = [fn_ret EXCEPT !.infolist = fn_args.members]
                      /\ pc' = "unzip"
                 ELSE /\ fn_ret' = [fn_ret EXCEPT !.exc = BadZipFile]
                      /\ pc' = "raised"
            ELSE /\ pc' = "glob"
                 /\ UNCHANGED fn_ret
    /\ UNCHANGED <<pipeline, fn_args>>

\* lines 34-39: one member of the archive; after the last one, line 42
M2dExtract ==
    /\ pc = "unzip"
    /\ IF fn_ret.infolist = <<>>
       THEN /\ pc' = "glob"
            /\ UNCHANGED fn_ret
       ELSE LET zip_info == fn_ret.infolist[1]
            IN  /\ fn_ret' = [fn_ret EXCEPT
                                  !.infolist = Tail(@),
                                  !.cwd = IF is_dir(zip_info)
                                          THEN @
                                          ELSE @ \cup {basename(zip_info)}]
                /\ UNCHANGED pc
    /\ UNCHANGED <<pipeline, fn_args>>

\* lines 42-48
M2dGlob ==
    /\ pc = "glob"
    /\ LET predictions_files == glob_csv(fn_ret.cwd)
       IN  fn_ret' =
               IF Cardinality(predictions_files) = 0
               THEN [fn_ret EXCEPT
                         !.predictions_files = predictions_files,
                         !.score_status = Str(INVALID),
                         !.message = Str("No predictions files found"),
                         !.score1 = PyNone, !.score2 = PyNone, !.score3 = PyNone]
               ELSE [fn_ret EXCEPT !.predictions_files = predictions_files]
    /\ pc' = "try"
    /\ UNCHANGED <<pipeline, fn_args>>

\* lines 51-61: the files are read and dropped, then the placeholder scores
M2dScore ==
    /\ pc = "try"
    /\ LET score1 == 1 + 1
       IN  fn_ret' = [fn_ret EXCEPT
                          !.score1 = PyInt(score1),
                          !.score2 = PyInt(score1 * 2),
                          !.score3 = PyInt(score1 * 3),
                          !.score_status = Str(SCORED),
                          !.message = Str("")]
    /\ pc' = "result"
    /\ UNCHANGED <<pipeline, fn_args>>

\* lines 66-73
M2dReturn ==
    /\ pc = "result"
    /\ fn_ret' = [fn_ret EXCEPT
                      !.result = [score1 |-> fn_ret.score1,
                                  score2 |-> fn_ret.score2,
                                  score3 |-> fn_ret.score3,
                                  score_status |-> fn_ret.score_status,
                                  score_errors |-> fn_ret.message]]
    /\ pc' = "returned"
    /\ UNCHANGED <<pipeline, fn_args>>

NextM2d == M2dBegin \/ M2dExtract \/ M2dGlob \/ M2dScore \/ M2dReturn

SpecM2d == InitM2d /\ [][NextM2d]_vars

\* C21: in model_to_data_score.score_submission with a non-INVALID incoming
\* status, when no predictions CSV file is found after extraction, the call
\* returns score_status INVALID with score_errors "No predictions files
\* found" and all three scores None.
C21_NoFilesIsInvalid ==
    (/\ pc = "returned"
     /\ fn_args.status # INVALID
     /\ fn_ret.predictions_files = {}) =>
        /\ fn_ret.result.score_status = Str(INVALID)
        /\ fn_ret.result.score_errors = Str("No predictions files found")
        /\ fn_ret.result.score1 = PyNone
        /\ fn_ret.result.score2 = PyNone
        /\ fn_ret.result.score3 = PyNone

(***************************************************************************)
(* run_docker.py: run_docker, with create_folders(..., "update", ...) of   *)
(* create_folders.py.  A text is a sequence of characters; a local file    *)
(* system maps paths to texts; Synapse is the set of its folders and the   *)
(* sequence of the files stored so far.                                    *)
(***************************************************************************)
Ascii == {"d", "o", "n", "e", "l", "\n", "\\n", "x"}

\* what open(..., "w", encoding="ascii", errors="ignore") writes of a text
RECURSIVE encode_ascii_ignore(_)
encode_ascii_ignore(text) ==
    IF text = <<>>
    THEN <<>>
    ELSE (IF text[1] \in Ascii THEN <<text[1]>> ELSE <<>>)
             \o encode_ascii_ignore(Tail(text))

\* create_log_file(log_filename, log_text) for a log_text that is not None
\* (run_docker always passes one): the files afterwards
create_log_file(files, log_filename, log_text) ==
    [f \in DOMAIN files \cup {log_filename} |->
        IF f = log_filename THEN encode_ascii_ignore(log_text) ELSE files[f]]

\* str(e).replace("\\n", "\n")
replace_newlines(text) ==
    [i \in DOMAIN text |-> IF text[i] = "\\n" THEN "\n" ELSE text[i]]

FileNotFound(path) == "No such file or directory: " \o path
\* a file argument that is None
NoPath == ""
RootFolderMissing == "Could not find 'Logs' root folder on Synapse"
SubfolderMissing(folder_name) ==
    "Could not find '" \o folder_name \o "' subfolder on Synapse"
NothingToUpdate == "Non-empty prediction and/or log file(s) must be provided"

\* lines 237-252 of create_folders for one (input_file, folder_name)
update_one(syn, files, input_file, folder_name, submission_id) ==
    IF input_file = NoPath
    THEN Ok(syn)
    ELSE IF input_file \notin DOMAIN files
    THEN Raise(FileNotFound(input_file))
    ELSE IF Len(files[input_file]) = 0
    THEN Ok(syn)
    ELSE IF folder_name \notin syn.folders
    THEN Raise(SubfolderMissing(folder_name))
    ELSE Ok([syn EXCEPT !.stored = Append(@,
                 [folder |-> folder_name, path |-> input_file,
                  name |-> submission_id \o "_" \o input_file,
                  content |-> files[input_file]])])

\* create_folders(project, submission_id, "update", predictions_file, log_file)
create_folders_update(syn, files, submission_id, predictions_file, log_file) ==
    IF "Logs" \notin syn.folders
    THEN Raise(RootFolderMissing)
    ELSE LET first == update_one(syn, files, predictions_file, "predictions",
                                 submission_id)
         IN  IF ~first.ok
             THEN first
             ELSE LET second == update_one(first.val, files, log_file,
                                           "docker_logs", submission_id)
                  IN  IF ~second.ok
                      THEN second
                      ELSE IF Len(second.val.stored) = Len(syn.stored)
                           THEN Raise(NothingToUpdate)
                           ELSE second

\* store_log_file and store_predictions_file: os.stat, then create_folders
store_file(syn, files, submission_id, filename, is_log) ==
    IF filename \notin DOMAIN files
    THEN Raise(FileNotFound(filename))
    ELSE IF Len(files[filename]) > 0
         THEN create_folders_update(syn, files, submission_id,
                                    IF is_log THEN NoPath ELSE filename,
                                    IF is_log THEN filename ELSE NoPath)
         ELSE Ok(syn)

\* the call of store_log_file in run_docker: log_filename=f"docker.log"
store_log_file(syn, files, submission_id, log_filename) ==
    store_file(syn, files, submission_id, "docker.log", TRUE)

predictions_csv_path == "output/predictions.csv"
predictions_zip_path == "output/predictions.zip"

Texts == {<<>>, <<"d", "o", "n", "e">>, <<"o", "\\n", "x">>}

\* what the container leaves in output/ and what was in the working
\* directory before
OutputDirs ==
    {EmptyDict,
     [f \in {predictions_csv_path} |-> <<"x">>],
     [f \in {predictions_zip_path} |-> <<"x">>],
     [f \in {predictions_csv_path} |-> <<>>]}
WorkDirs == {EmptyDict, [f \in {"docker.log"} |-> <<"o", "l", "d">>]}

RunDockerArgs ==
    [fn : {"run_docker"},
     log_filename : {"docker.log", "run.log"},
     has_image : BOOLEAN,
     container_fails : BOOLEAN,
     container_text : Texts,
     output : OutputDirs,
     workdir : WorkDirs,
     folders : {{"Logs", "docker_logs", "predictions"}, {"Logs", "docker_logs"}}]

InitRunDocker ==
    /\ PipelineUnused
    /\ pc = "call"
    /\ fn_args \in RunDockerArgs
    /\ fn_ret = [fn |-> "run_docker", files |-> fn_args.workdir,
                 syn |-> [folders |-> fn_args.folders, stored |-> <<>>],
                 log_text |-> Unbound, e |-> "", exc |-> ""]

\* lines 178-197; get_submission_image raises without a Docker image
RunDockerSetup ==
    /\ pc = "call"
    /\ IF fn_args.has_image
       THEN /\ pc' = "try"
            /\ UNCHANGED fn_ret
       ELSE /\ pc' = "raised"
            /\ fn_ret' = [fn_ret EXCEPT !.exc = "has no associated Docker image"]
    /\ UNCHANGED <<pipeline, fn_args>>

\* lines 203-212: client.containers.run
RunContainer ==
    /\ pc = "try"
    /\ IF fn_args.container_fails
       THEN /\ pc' = "except"
            /\ fn_ret' = [fn_ret EXCEPT !.e = "ContainerError",
                              !.log_text = replace_newlines(fn_args.container_text)]
       ELSE /\ pc' = "predictions"
            /\ fn_ret' = [fn_ret EXCEPT
                              !.log_text = fn_args.container_text,
                              !.files = Update(@, fn_args.output)]
    /\ UNCHANGED <<pipeline, fn_args>>

\* lines 215-235: the predictions file, still inside the try block
StorePredictions ==
    /\ pc = "predictions"
    /\ LET path == IF predictions_csv_path \in DOMAIN fn_ret.files
                   THEN predictions_csv_path
                   ELSE predictions_zip_path
           r == IF path \in DOMAIN fn_ret.files
                THEN store_file(fn_ret.syn, fn_ret.files, "9701", path, FALSE)
                ELSE Ok(fn_ret.syn)
       IN  IF r.ok
           THEN /\ fn_ret' = [fn_ret EXCEPT !.syn = r.val]
                /\ pc' = "log"
           ELSE /\ fn_ret' = [fn_ret EXCEPT !.e = r.exc,
                                  !.log_text = replace_newlines(<<"e", "x">>)]
                /\ pc' = "except"
    /\ UNCHANGED <<pipeline, fn_args>>

\* lines 236-243 (pc = "except") and lines 246-254 (pc = "log"): the log
\* file is written and stored; the handler then re-raises
StoreLog ==
    /\ pc \in {"except", "log"}
    /\ LET files == create_log_file(fn_ret.files, fn_args.log_filename,
                                    fn_ret.log_text)
           r == store_log_file(fn_ret.syn, files, "9701", fn_args.log_filename)
       IN  IF r.ok
           THEN /\ fn_ret' = [fn_ret EXCEPT !.files = files, !.syn = r.val,
                                            !.exc = fn_ret.e]
                /\ pc' = IF pc = "except" THEN "raised" ELSE "returned"
           ELSE /\ fn_ret' = [fn_ret EXCEPT !.files = files, !.exc = r.exc]
                /\ pc' = "raised"
    /\ UNCHANGED <<pipeline, fn_args>>

NextRunDocker == RunDockerSetup \/ RunContainer \/ StorePredictions \/ StoreLog

SpecRunDocker == InitRunDocker /\ [][NextRunDocker]_vars

\* the files stored in the docker_logs folder, in order
RECURSIVE StoredIn(_, _)
StoredIn(stored, folder) ==
    IF stored = <<>>
    THEN <<>>
    ELSE (IF stored[1].folder = folder THEN <<stored[1]>> ELSE <<>>)
             \o StoredIn(Tail(stored), folder)

\* the log file at log_filename holds text and, unless it is empty (an
\* empty file is never uploaded), it is the one file stored in docker_logs,
\* after every predictions file
LogWrittenAndStored(text) ==
    /\ fn_args.log_filename \in DOMAIN fn_ret.files
    /\ fn_ret.files[fn_args.log_filename] = encode_ascii_ignore(text)
    /\ LET logs == StoredIn(fn_ret.syn.stored, "docker_logs")
       IN  encode_ascii_ignore(text) # <<>> =>
           /\ Len(logs) = 1
           /\ logs[1].path = fn_args.log_filename
           /\ logs[1].content = encode_ascii_ignore(text)
           /\ fn_ret.syn.stored[Len(fn_ret.syn.stored)] = logs[1]

\* C22: for any log_filename, run_docker writes the container's output (on
\* success) or the exception text (on failure) to log_filename and then
\* stores that same file on Synapse; on failure the log is written and
\* stored before the original exception is re-raised, and on success the
\* predictions file is stored before the log.
C22_LogWrittenThenStored ==
    /\ pc = "returned" => LogWrittenAndStored(fn_args.container_text)
    /\ (pc = "raised" /\ fn_ret.e = "ContainerError") =>
          /\ LogWrittenAndStored(replace_newlines(fn_args.container_text))
          /\ fn_ret.exc = "ContainerError"

(***************************************************************************)
(* create_folders.py: create_folders(..., "create", ...).  Synapse is a    *)
(* tree of entities below the project.  An entity has an access control    *)
(* list of its own (principal -> set of access types) or inherits the one  *)
(* of its benefactor, the nearest ancestor that has one.                   *)
(***************************************************************************)
ProjectEntity == "project"
Inherits == [local |-> FALSE, access |-> EmptyDict]
LocalAcl(access) == [local |-> TRUE, access |-> access]

\* the access control list in force on an entity
RECURSIVE AclOf(_, _)
AclOf(syn, entity) ==
    IF syn[entity].acl.local
    THEN syn[entity].acl.access
    ELSE AclOf(syn, syn[entity].parent)

\* syn.setPermissions(entity, principalId, accessType): the entity gets an
\* access control list of its own, the one in force with the principal's
\* entry replaced, or removed for an empty accessType
setPermissions(syn, entity, principalId, accessType) ==
    LET acl == AclOf(syn, entity)
        new == IF accessType = {}
               THEN [q \in DOMAIN acl \ {principalId} |-> acl[q]]
               ELSE [q \in DOMAIN acl \cup {principalId} |->
                        IF q = principalId THEN accessType ELSE acl[q]]
    IN  [syn EXCEPT ![entity].acl = LocalAcl(new)]

\* syn.store(Folder(name, parent)): an existing folder is returned as it is
create_folder(syn, folder_name, parent) ==
    LET id == IF parent = ProjectEntity
              THEN folder_name
              ELSE parent \o "/" \o folder_name
    IN  [id |-> id,
         syn |-> IF id \in DOMAIN syn
                 THEN syn
                 ELSE [e \in DOMAIN syn \cup {id} |->
                          IF e = id THEN [parent |-> parent, acl |-> Inherits]
                          ELSE syn[e]]]

all_participants == "3500001"
AUTHENTICATED_USERS == "273948"
PUBLIC == "273949"

RECURSIVE revoke_all(_, _, _)
revoke_all(syn, subfolder, ids) ==
    IF ids = <<>>
    THEN syn
    ELSE revoke_all(setPermissions(syn, subfolder, ids[1], {}), subfolder, Tail(ids))

\* faulty variant: the public keeps what it had
update_permissions_not_public(syn, subfolder, principal_id, access_type) ==
    LET revoked == revoke_all(syn, subfolder, <<all_participants, AUTHENTICATED_USERS>>)
    IN  IF principal_id # ""
        THEN setPermissions(revoked, subfolder, principal_id, access_type)
        ELSE revoked
\* update_permissions(syn, subfolder, project_id, principal_id, access_type)
update_permissions(syn, subfolder, principal_id, access_type) ==
    LET revoked == revoke_all(syn, subfolder,
                              <<all_participants, AUTHENTICATED_USERS, PUBLIC>>)
    IN  IF principal_id # ""
        THEN setPermissions(revoked, subfolder, principal_id, access_type)
        ELSE revoked

Submitters == {"3400001", "3400002"}
Grants == {{}, {"READ"}, {"READ", "DOWNLOAD", "UPDATE"}}

\* access control lists of the project: the maintainers, and any grant to
\* the participant team, the registered users, the public and a submitter
ProjectAcls ==
    {[q \in {"maintainers"} \cup {r \in DOMAIN g : g[r] # {}} |->
         IF q = "maintainers" THEN {"READ", "DOWNLOAD", "UPDATE", "CHANGE_PERMISSIONS"}
         ELSE g[q]] :
     g \in [{all_participants, AUTHENTICATED_USERS, PUBLIC, "3400001"} -> Grants]}

\* the project alone, or with the folders of an earlier run, opened up since
SynapseOf(acl, rerun) ==
    LET project == [e \in {ProjectEntity} |->
                        [parent |-> ProjectEntity, acl |-> LocalAcl(acl)]]
    IN  IF ~rerun
        THEN project
        ELSE Update(project,
                 [e \in {"Logs", "Logs/3400001", "Logs/3400001/predictions"} |->
                     [parent |-> CASE e = "Logs" -> ProjectEntity
                                   [] e = "Logs/3400001" -> "Logs"
                                   [] OTHER -> "Logs/3400001",
                      acl |-> IF e = "Logs"
                              THEN Inherits
                              ELSE LocalAcl([q \in {PUBLIC, "3400001"} |-> {"READ"}])]])

CreateFoldersArgs ==
    [fn : {"create_folders"},
     create_or_update : {"create", "update", "recreate"},
     submitter_id : Submitters,
     acl : ProjectAcls,
     rerun : BOOLEAN]

InitCreateFolders ==
    /\ PipelineUnused
    /\ pc = "call"
    /\ fn_args \in CreateFoldersArgs
    /\ fn_ret = [fn |-> "create_folders",
                 syn |-> SynapseOf(fn_args.acl, fn_args.rerun),
                 root_folder |-> "", level1_subfolder |-> "", subfolders |-> <<>>,
                 done |-> <<>>, exc |-> ""]

\* lines 187-191, or the branches of lines 222-261: "update" finds no file
\* to upload here, any other value is refused
CreateRoot ==
    /\ pc = "call"
    /\ IF fn_args.create_or_update = "create"
       THEN LET r == create_folder(fn_ret.syn, "Logs", ProjectEntity)
            IN  /\ fn_ret' = [fn_ret EXCEPT !.syn = r.syn, !.root_folder = r.id,
                                  !.done = Append(@, <<"create", r.id>>)]
                /\ pc' = "level1"
       ELSE /\ fn_ret' = [fn_ret EXCEPT !.exc =
                              IF fn_args.create_or_update = "update"
                              THEN IF "Logs" \in DOMAIN fn_ret.syn
                                   THEN NothingToUpdate
                                   ELSE RootFolderMissing
                              ELSE "``create_or_update`` must be either 'create' or 'update'. Exiting."]
            /\ pc' = "raised"
    /\ UNCHANGED <<pipeline, fn_args>>

\* lines 195-197
CreateLevel1 ==
    /\ pc = "level1"
    /\ LET r == create_folder(fn_ret.syn, fn_args.submitter_id, fn_ret.root_folder)
       IN  fn_ret' = [fn_ret EXCEPT !.syn = r.syn, !.level1_subfolder = r.id,
                          !.done = Append(@, <<"create", r.id>>)]
    /\ pc' = "permissions"
    /\ UNCHANGED <<pipeline, fn_args>>

\* lines 198-204
PermitLevel1 ==
    /\ pc = "permissions"
    /\ fn_ret' = [fn_ret EXCEPT
                      !.syn = update_permissions(@, fn_ret.level1_subfolder,
                                  fn_args.submitter_id, {"READ", "DOWNLOAD"}),
                      !.subfolders = <<"docker_logs", "predictions">>,
                      !.done = Append(@, <<"permissions", fn_ret.level1_subfolder>>)]
    /\ pc' = "level2"
    /\ UNCHANGED <<pipeline, fn_args>>

\* lines 206-220: one level-2 subfolder; after the last one, the return
CreateLevel2 ==
    /\ pc = "level2"
    /\ IF fn_ret.subfolders = <<>>
       THEN /\ pc' = "returned"
            /\ UNCHANGED fn_ret
       ELSE LET name == fn_ret.subfolders[1]
                r == create_folder(fn_ret.syn, name, fn_ret.level1_subfolder)
            IN  /\ fn_ret' = [fn_ret EXCEPT
                        !.syn = IF name = "predictions"
                                THEN update_permissions(r.syn, r.id,
                                         fn_args.submitter_id, {})
                                ELSE r.syn,
                        !.subfolders = Tail(@),
                        !.done = Append(@, <<"create", r.id>>)]
                /\ UNCHANGED pc
    /\ UNCHANGED <<pipeline, fn_args>>

NextCreateFolders == CreateRoot \/ CreateLevel1 \/ PermitLevel1 \/ CreateLevel2

SpecCreateFolders == InitCreateFolders /\ [][NextCreateFolders]_vars

\* the access types an entity grants to a principal
Granted(entity, principal) ==
    LET acl == AclOf(fn_ret.syn, entity)
    IN  IF principal \in DOMAIN acl THEN acl[principal] ELSE {}

SubmitterFolder == "Logs/" \o fn_args.submitter_id

\* C23: after create_folders(..., create_or_update = "create") returns, the
\* submitter folder grants nothing to the participant team, to all
\* authenticated users and to the public, and grants the submitter exactly
\* READ and DOWNLOAD; the only_admins subfolder "predictions" grants nothing
\* to the submitter nor to those three principals; and the submitter
\* folder's permissions are set before any level-2 subfolder is created.
C23_FolderPermissions ==
    /\ pc = "returned" =>
          /\ \A q \in {all_participants, AUTHENTICATED_USERS, PUBLIC} :
                /\ Granted(SubmitterFolder, q) = {}
                /\ Granted(SubmitterFolder \o "/predictions", q) = {}
          /\ Granted(SubmitterFolder, fn_args.submitter_id) = {"READ", "DOWNLOAD"}
          /\ Granted(SubmitterFolder \o "/predictions", fn_args.submitter_id) = {}
    /\ fn_args.fn = "create_folders" =>
          \A i \in DOMAIN fn_ret.done :
              (/\ fn_ret.done[i][1] = "create"
               /\ fn_ret.done[i][2] \in {SubmitterFolder \o "/docker_logs",
                                         SubmitterFolder \o "/predictions"}) =>
                  \E j \in 1..(i - 1) :
                      fn_ret.done[j] = <<"permissions", SubmitterFolder>>

\* the folders of an earlier run were open to the public, the project is
\* open to the participants and to the public, and the call returned
C23_Witness ==
    /\ pc = "returned"
    /\ fn_args.rerun
    /\ fn_args.submitter_id = "3400001"
    /\ {PUBLIC, all_participants} \subseteq DOMAIN fn_args.acl
    /\ fn_args.acl[PUBLIC] = {"READ"}
    /\ fn_args.acl[all_participants] = {"READ", "DOWNLOAD", "UPDATE"}
    /\ Len(fn_ret.done) = 5

(***************************************************************************)
(* dynamic_challenge_send_email.py: send_email.  fn_ret.calls is the       *)
(* sequence of the requests made to Synapse, fn_ret.sent the messages      *)
(* handed to syn.sendMessage.                                              *)
(***************************************************************************)
BEFORE == "BEFORE"
AFTER == "AFTER"

\* "\n".join(get_score_dict(score)): an empty first line, then a line
\* "key : value" and an empty line for every score
RECURSIVE joined_scores(_)
joined_scores(score) ==
    IF score = <<>>
    THEN ""
    ELSE "\n" \o score[1].key \o " : " \o score[1].value \o "\n"
              \o joined_scores(Tail(score))

\* the dictionary templates of email_template
templates(submission_id, target_link, score, reason) ==
    [VALIDATED |->
        [yes |-> "Submission " \o submission_id
                    \o " has been evaluated with the following scores:\n"
                    \o joined_scores(score)
                    \o "\nView all your submissions here: " \o target_link \o ".",
         no |-> "Submission " \o submission_id
                    \o " has been evaluated. Your score will be available after Challenge submissions are closed. Thank you for participating!"],
     INVALID |->
        [yes |-> "Evaluation failed for Submission " \o submission_id \o ".\n"
                    \o "Reason: '" \o reason \o "'.\n"
                    \o "View your submissions here: " \o target_link \o ".\n"
                    \o "Please contact the organizers for more information.",
         no |-> "Evaluation failed for Submission " \o submission_id \o ".\n"
                    \o "Reason: '" \o reason \o "'.\n"
                    \o "Please contact the organizers for more information."]]

IncorrectArguments(status_, email_with_score) ==
    "Incorrect status and/or email_with_score arguments. Got status: " \o status_
        \o ", email_with_score: " \o email_with_score \o "."

\* faulty variant: a pair without a template gets an empty body
email_template_unchecked(status_, email_with_score, submission_id, target_link, score, reason) ==
    LET t == templates(submission_id, target_link, score, reason)
    IN  IF status_ \in DOMAIN t /\ email_with_score \in DOMAIN t[status_]
        THEN Ok(t[status_][email_with_score])
        ELSE Ok("")
\* email_template(status, email_with_score, submission_id, target_link,
\* score, reason): the body, or the ValueError
email_template(status_, email_with_score, submission_id, target_link, score, reason) ==
    LET t == templates(submission_id, target_link, score, reason)
    IN  IF status_ \in DOMAIN t /\ email_with_score \in DOMAIN t[status_]
        THEN Ok(t[status_][email_with_score])
        ELSE Raise(IncorrectArguments(status_, email_with_score))

EVAL_TO_LINK ==
    [e \in {"9615379", "9615532", "9615534", "9615535"} |->
        "https://www.synapse.org/#!Synapse:syn52052735/wiki/"
            \o CASE e = "9615379" -> "626195"
                 [] e = "9615532" -> "626203"
                 [] e = "9615534" -> "626211"
                 [] e = "9615535" -> "626216"]

InvalidNotificationType ==
    "Invalid notification_type. Must be '" \o BEFORE \o "' or '" \o AFTER \o "'"
NotSubscriptable == "'NoneType' object is not subscriptable"
CannotUnpack == "cannot unpack non-iterable NoneType object"

\* the annotations of the submission: none yet, or a validation status, its
\* errors and scores
NoAnnotations == [present |-> FALSE, status |-> "", reason |-> "", score |-> <<>>]
Annotations ==
    {NoAnnotations}
    \cup [present : {TRUE},
          status : {"VALIDATED", INVALID, "SCORED"},
          reason : {"", "bad file"},
          score : {<<>>, <<[key |-> "Lorenz_stf_E1", value |-> "42.0"]>>}]

SendEmailArgs ==
    [fn : {"send_email"},
     submission_id : {"9701"},
     email_with_score : {"yes", "no", "Yes"},
     notification_type : {BEFORE, AFTER, "before"},
     annotations : Annotations,
     evaluation : {[found |-> TRUE, id |-> "9615379"],
                   [found |-> TRUE, id |-> "9700000"],
                   [found |-> FALSE, id |-> ""]}]

InitSendEmail ==
    /\ PipelineUnused
    /\ pc = "call"
    /\ fn_args \in SendEmailArgs
    /\ fn_ret = [fn |-> "send_email", calls |-> <<>>, sent |-> <<>>,
                 subject |-> Unbound, body |-> Unbound, exc |-> ""]

\* lines 155-161
SendEmailBegin ==
    /\ pc = "call"
    /\ IF fn_args.notification_type \notin {BEFORE, AFTER}
       THEN /\ fn_ret' = [fn_ret EXCEPT !.exc = InvalidNotificationType]
            /\ pc' = "raised"
       ELSE /\ fn_ret' = [fn_ret EXCEPT !.calls = @ \o <<"login", "getSubmission">>]
            /\ pc' = "compose"
    /\ UNCHANGED <<pipeline, fn_args>>

\* lines 163-168
ComposeBefore ==
    /\ pc = "compose"
    /\ fn_args.notification_type = BEFORE
    /\ fn_ret' = [fn_ret EXCEPT
                      !.subject = Str("Evaluation for Submission "
                                      \o fn_args.submission_id \o " is In Progress"),
                      !.body = Str("Evaluation for Submission " \o fn_args.submission_id
                                   \o " is In Progress. "
                                   \o "Further notification will be provided when evaluation is complete.")]
    /\ pc' = "send"
    /\ UNCHANGED <<pipeline, fn_args>>

\* lines 169-192: get_annotations, get_evaluation (None when the lookup
\* failed), get_target_link, the subject and email_template
ComposeAfter ==
    /\ pc = "compose"
    /\ fn_args.notification_type = AFTER
    /\ LET a == fn_args.annotations
           ev == fn_args.evaluation
           eval_name == "Queue " \o ev.id
           known == ev.id \in DOMAIN EVAL_TO_LINK
           target_link == IF known
                          THEN EVAL_TO_LINK[ev.id]
                          ELSE "https://www.synapse.org/#!Synapse:" \o "syn52052735"
           body == email_template(a.status, fn_args.email_with_score,
                                  fn_args.submission_id, target_link, a.score, a.reason)
           looked_up == fn_ret.calls \o <<"getSubmissionStatus">>
           evaluated == looked_up \o <<"getSubmission", "getEvaluation">>
       IN  IF ~a.present
           THEN /\ fn_ret' = [fn_ret EXCEPT !.calls = looked_up,
                                            !.exc = NotSubscriptable]
                /\ pc' = "raised"
           ELSE IF ~ev.found
           THEN /\ fn_ret' = [fn_ret EXCEPT !.calls = evaluated,
                                            !.exc = CannotUnpack]
                /\ pc' = "raised"
           ELSE LET calls_ == IF known
                              THEN evaluated
                              ELSE evaluated \o <<"getEvaluation">>
                    subject == IF a.status = "VALIDATED"
                               THEN "Submission to '" \o eval_name \o "' Success: "
                                        \o fn_args.submission_id
                               ELSE "Submission to '" \o eval_name \o "' Failed: "
                                        \o fn_args.submission_id
                IN  IF body.ok
                    THEN /\ fn_ret' = [fn_ret EXCEPT !.calls = calls_,
                                           !.subject = Str(subject),
                                           !.body = Str(body.val)]
                         /\ pc' = "send"
                    ELSE /\ fn_ret' = [fn_ret EXCEPT !.calls = calls_,
                                           !.subject = Str(subject),
                                           !.exc = body.exc]
                         /\ pc' = "raised"
    /\ UNCHANGED <<pipeline, fn_args>>

\* line 195
SendMessage ==
    /\ pc = "send"
    /\ fn_ret' = [fn_ret EXCEPT
                      !.calls = Append(@, "sendMessage"),
                      !.sent = Append(@, [subject |-> fn_ret.subject,
                                          body |-> fn_ret.body])]
    /\ pc' = "returned"
    /\ UNCHANGED <<pipeline, fn_args>>

NextSendEmail == SendEmailBegin \/ ComposeBefore \/ ComposeAfter \/ SendMessage

SpecSendEmail == InitSendEmail /\ [][NextSendEmail]_vars

(***************************************************************************)
(* Properties of send_email                                                *)
(***************************************************************************)
Requested(call) == \E i \in DOMAIN fn_ret.calls : fn_ret.calls[i] = call

SendEmailEnded == pc \in {"returned", "raised"}

PairWithoutTemplate ==
    /\ fn_args.notification_type = AFTER
    /\ fn_args.annotations.present
    /\ <<fn_args.annotations.status, fn_args.email_with_score>>
           \notin {"VALIDATED", INVALID} \X {"yes", "no"}

\* what C24 says of every call but of an AFTER call without a template
SendEmailRules ==
    /\ Len(fn_ret.sent) <= 1
    /\ \A i \in DOMAIN fn_ret.sent :
          /\ fn_ret.sent[i].subject.t = "str"
          /\ fn_ret.sent[i].body.t = "str"
          /\ fn_ret.sent[i].body.s # ""
    /\ (fn_args.notification_type \notin {BEFORE, AFTER} /\ pc # "call") =>
          /\ pc = "raised"
          /\ fn_ret.exc = InvalidNotificationType
          /\ fn_ret.calls = <<>>
          /\ fn_ret.sent = <<>>
    /\ fn_args.notification_type = BEFORE =>
          /\ ~Requested("getSubmissionStatus")
          /\ SendEmailEnded =>
                /\ pc = "returned"
                /\ fn_ret.sent =
                       <<[subject |-> Str("Evaluation for Submission 9701 is In Progress"),
                          body |-> Str("Evaluation for Submission 9701 is In Progress. Further notification will be provided when evaluation is complete.")]>>
    /\ (fn_args.notification_type = AFTER /\ pc = "returned") =>
          /\ Len(fn_ret.sent) = 1
          /\ fn_args.annotations.status = "VALIDATED" <=>
                 fn_ret.sent[1].subject.s =
                     "Submission to 'Queue " \o fn_args.evaluation.id
                         \o "' Success: 9701"
          /\ fn_args.annotations.status # "VALIDATED" <=>
                 fn_ret.sent[1].subject.s =
                     "Submission to 'Queue " \o fn_args.evaluation.id
                         \o "' Failed: 9701"

RECURSIVE join_reasons(_)
join_reasons(invalid_reasons) ==
    IF invalid_reasons = <<>>
    THEN ""
    ELSE IF Len(invalid_reasons) = 1
         THEN invalid_reasons[1]
         ELSE invalid_reasons[1] \o ";" \o join_reasons(Tail(invalid_reasons))

\* sub_file.read(): a string, the empty one for an empty file
read(text) == Str(text)

NotGenerated == "Predictions file(s) not generated from Docker container"
EmptyPredictions == "At least one predictions file is empty"

CsvMember(name, text) == [name |-> name, text |-> text]

ValidateMembers ==
    {CsvMember(<<"predictions", ".", "csv">>, "id,value"),
     CsvMember(<<"predictions", ".", "csv">>, ""),
     CsvMember(<<"sub", "/", "more", ".", "csv">>, ""),
     CsvMember(<<"sub", "/", "more", ".", "csv">>, "id,value"),
     CsvMember(<<"sub", "/">>, ""),
     CsvMember(<<"readme", ".", "txt">>, "")}

ValidateArgs ==
    [fn : {"validate"},
     predictions_path : {<<"tmp", "/", "predictions", ".", "zip">>,
                         <<"tmp", "/", "INVALID", "_", "reasons", ".", "txt">>},
     readable : BOOLEAN,
     members : UNION {[1..n -> ValidateMembers] : n \in 0..MaxZipMembers},
     cwd : {EmptyDict,
            [f \in {<<"old", ".", "csv">>} |-> "id,value"],
            [f \in {<<"old", ".", "csv">>} |-> ""]}]

InitValidate ==
    /\ PipelineUnused
    /\ pc = "call"
    /\ fn_args \in ValidateArgs
    /\ fn_ret = [fn |-> "validate", cwd |-> fn_args.cwd, infolist |-> <<>>,
                 globbed |-> {}, predictions_files |-> {},
                 prediction_status |-> Unbound, invalid_reasons |-> <<>>,
                 result |-> EmptyDict, exc |-> ""]

\* lines 12-21
ValidateBegin ==
    /\ pc = "call"
    /\ IF contains(fn_args.predictions_path, <<"INVALID">>)
       THEN /\ fn_ret' = [fn_ret EXCEPT
                              !.prediction_status = Str(INVALID),
                              !.invalid_reasons = Append(@, "reasons of an earlier step")]
            /\ pc' = "result"
       ELSE IF contains(basename(fn_args.predictions_path), <<".", "zip">>)
            THEN IF fn_args.readable
                 THEN /\ fn_ret' = [fn_ret EXCEPT !.infolist = fn_args.members]
                      /\ pc' = "unzip"
                 ELSE /\ fn_ret' = [fn_ret EXCEPT !.exc = BadZipFile]
                      /\ pc' = "raised"
            ELSE /\ pc' = "glob"
                 /\ UNCHANGED fn_ret
    /\ UNCHANGED <<pipeline, fn_args>>

\* lines 22-27: one member of the archive; after the last one, line 30
ValidateExtract ==
    /\ pc = "unzip"
    /\ IF fn_ret.infolist = <<>>
       THEN /\ pc' = "glob"
            /\ UNCHANGED fn_ret
       ELSE LET zip_info == fn_ret.infolist[1]
                name == basename(zip_info.name)
            IN  /\ fn_ret' = [fn_ret EXCEPT
                        !.infolist = Tail(@),
                        !.cwd = IF is_dir(zip_info.name)
                                THEN @
                                ELSE Update(@, [f \in {name} |-> zip_info.text])]
                /\ UNCHANGED pc
    /\ UNCHANGED <<pipeline, fn_args>>

\* lines 30-35
ValidateGlob ==
    /\ pc = "glob"
    /\ LET predictions_files == glob_csv(DOMAIN fn_ret.cwd)
       IN  fn_ret' =
               IF Cardinality(predictions_files) = 0
               THEN [fn_ret EXCEPT
                         !.prediction_status = Str(INVALID),
                         !.invalid_reasons = Append(@, NotGenerated)]
               ELSE [fn_ret EXCEPT !.globbed = predictions_files,
                                   !.predictions_files = predictions_files]
    /\ pc' = "files"
    /\ UNCHANGED <<pipeline, fn_args>>

\* lines 38-44 for the next file of the list, whichever it is
ValidateFile ==
    /\ pc = "files"
    /\ \E file \in fn_ret.predictions_files :
         LET message == read(fn_ret.cwd[file])
         IN  fn_ret' =
                 IF message = PyNone
                 THEN [fn_ret EXCEPT
                           !.predictions_files = @ \ {file},
                           !.prediction_status = Str(INVALID),
                           !.invalid_reasons = Append(@, EmptyPredictions)]
                 ELSE [fn_ret EXCEPT
                           !.predictions_files = @ \ {file},
                           !.prediction_status = Str("VALIDATED")]
    /\ UNCHANGED <<pipeline, fn_args, pc>>

\* lines 45-52
ValidateWrite ==
    /\ \/ pc = "result"
       \/ pc = "files" /\ fn_ret.predictions_files = {}
    /\ fn_ret' = [fn_ret EXCEPT
                      !.result = [validation_status |-> fn_ret.prediction_status,
                                  validation_errors |->
                                      Str(join_reasons(fn_ret.invalid_reasons))]]
    /\ pc' = "returned"
    /\ UNCHANGED <<pipeline, fn_args>>

NextValidate ==
    ValidateBegin \/ ValidateExtract \/ ValidateGlob \/ ValidateFile \/ ValidateWrite

SpecValidate == InitValidate /\ [][NextValidate]_vars

\* C25: in validate.py, if at least one extracted predictions CSV file is
\* empty, the written validation_status is INVALID and validation_errors
\* contains "At least one predictions file is empty", whatever the number
\* of files and the order in which they are checked.
C25_EmptyFileIsInvalid ==
    (/\ pc = "returned"
     /\ \E file \in fn_ret.globbed : fn_ret.cwd[file] = "") =>
        /\ fn_ret.result.validation_status = Str(INVALID)
        /\ \E i \in DOMAIN fn_ret.invalid_reasons :
              fn_ret.invalid_reasons[i] = EmptyPredictions

(***************************************************************************)
(* untar called directly (dynamic_challenge_score.py and, with the same    *)
(* body, dynamic_challenge_validate.py), on archives whose members have    *)
(* nested and absolute paths and paths through "..".  The name of a file   *)
(* of the directory is its path relative to the directory.  No member is a *)
(* regular file whose base name is ".." or ".".                            *)
(***************************************************************************)
UntarMembers ==
    {File(pred_name("Lorenz", "X1"), ArrA),
     File(<<"sub", "/", "deep", "/">> \o pred_name("Lorenz", "X1"), ArrB),
     File(<<"/", "etc", "/", "cron", ".", "npy">>, ArrA),
     File(<<".", ".", "/", ".", ".", "/", "outside", ".", "npy">>, ArrB),
     File(<<"sub", "/", "notes", ".", "txt">>, ArrA),
     File(<<"weights", "*">>, ArrA),
     Dir(<<"sub", "/", "deep">>),
     Dir(<<"dir", ".", "npy">>)}

UntarArgs ==
    [fn : {"untar"},
     directory : {NoDirectory,
                  extract(NoDirectory, pred_name("Lorenz", "X1"), Zeros31)},
     tar_file : {[readable |-> FALSE, members |-> <<>>]}
                \cup {[readable |-> TRUE, members |-> ms] :
                        ms \in UNION {[1..n -> UntarMembers] : n \in 0..MaxMembers}},
     pattern : {<<".", "npy">>, <<"*">>, <<>>}]

InitUntar ==
    /\ PipelineUnused
    /\ pc = "call"
    /\ fn_args \in UntarArgs
    /\ fn_ret = NoCall

CallUntar ==
    /\ pc = "call"
    /\ fn_args.fn = "untar"
    /\ fn_ret' = untar(fn_args.directory, fn_args.tar_file, fn_args.pattern)
    /\ pc' = "returned"
    /\ UNCHANGED <<pipeline, fn_args>>

NextUntar == CallUntar

SpecUntar == InitUntar /\ [][NextUntar]_vars

\* the last component of a path
LastComponent(name) ==
    LET slashes == {i \in DOMAIN name : name[i] = "/"}
        last == IF slashes = {} THEN 0
                ELSE CHOOSE i \in slashes : \A j \in slashes : j <= i
    IN  SubSeq(name, last + 1, Len(name))

\* the members untar is to write: regular files whose name ends with pattern
Wanted(members, pattern) ==
    {i \in DOMAIN members :
        /\ members[i].isfile
        /\ Len(members[i].name) >= Len(pattern)
        /\ \A k \in 1..Len(pattern) :
              members[i].name[Len(members[i].name) - Len(pattern) + k] = pattern[k]}

\* C26: untar(directory, tar_filename, pattern) writes only archive members
\* that are regular files and whose name ends with pattern, each directly
\* inside directory under its base name; whatever the member paths in the
\* archive (nested, absolute or containing ".."), it never creates a file
\* outside directory or in a subdirectory of it.
C26_UntarWritesBaseNamesOnly ==
    (pc = "returned" /\ fn_ret.ok) =>
        LET before == fn_args.directory.files
            after == fn_ret.val.files
            members == fn_args.tar_file.members
            wanted == Wanted(members, fn_args.pattern)
        IN  /\ \A f \in DOMAIN after :
                  /\ f # <<>>
                  /\ \A i \in DOMAIN f : f[i] # "/"
                  /\ \/ f \in DOMAIN before /\ after[f] = before[f]
                     \/ \E i \in wanted :
                           /\ f = LastComponent(members[i].name)
                           /\ after[f] = members[i].content
                           /\ \A j \in wanted :
                                 (j > i) => LastComponent(members[j].name) # f
            /\ \A i \in wanted : LastComponent(members[i].name) \in DOMAIN after
            /\ \A f \in DOMAIN before :
                  f \in DOMAIN after
                  /\ (after[f] # before[f] =>
                         \E i \in wanted : LastComponent(members[i].name) = f)

\* an archive with an absolute member and a member through ".." was
\* extracted with pattern ".npy": both files are in the directory
C26_Witness ==
    /\ pc = "returned"
    /\ fn_ret.ok
    /\ fn_args.pattern = <<".", "npy">>
    /\ \E i, j \in DOMAIN fn_args.tar_file.members :
          /\ fn_args.tar_file.members[i].name[1] = "/"
          /\ fn_args.tar_file.members[j].name[1] = "."
    /\ {<<"cron", ".", "npy">>, <<"outside", ".", "npy">>}
           \subseteq DOMAIN fn_ret.val.files

(***************************************************************************)
(* Properties of the dispatch table and the task registry                  *)
(***************************************************************************)
\* the indices a metric kind's return value has
IndicesOf(score_metric) == IF score_metric = "forecast" THEN {0, 1} ELSE {0}

IndexErrors == {"list index out of range", "tuple index out of range"}

\* C27: every system of the catalog used by calculate_all_scores has an
\* entry in forecast's dispatch table, and every score index declared by a
\* task of any evaluation queue is within the length of the sequence its
\* metric kind returns (0 or 1 for forecast, 0 for reconstruction); hence
\* for every (queue, system, task) combination the index selection
\* scores[index] never fails.
C27_IndexSelectionNeverFails ==
    /\ true_systems \subseteq DOMAIN system_to_forecast
    /\ \A id \in DOMAIN task_mapping : \A t \in DOMAIN task_mapping[id] :
          LET task == task_mapping[id][t]
          IN  /\ Len(task.score_keys) = Len(task.score_indices)
              /\ \A i \in DOMAIN task.score_indices :
                    task.score_indices[i] \in IndicesOf(task.score_metric)
    /\ outcome.exc \notin IndexErrors
    /\ (pc = "done" /\ outcome.score_status = SCORED) =>
          \A system \in true_systems :
              \A t \in DOMAIN task_info_of(evaluation_id).tasks :
                  LET task == task_info_of(evaluation_id).tasks[t]
                  IN  pred_name(system, task.prefix) \in DOMAIN predictions.files =>
                          \A i \in DOMAIN task.score_keys :
                              (system \o "_" \o task.score_keys[i])
                                  \in DOMAIN outcome.result

\* a submission to queue 9615532 was scored: index 0 of a reconstruction
\* and index 1 of a forecast were selected
C27_Witness ==
    /\ pc = "done"
    /\ outcome.score_status = SCORED
    /\ evaluation_id = "9615532"
    /\ {"Lorenz_recon_E3", "Lorenz_ltf_E4"} \subseteq DOMAIN outcome.result

(***************************************************************************)
(* score_submission invoked again and again in one working directory: the  *)
(* directory "predictions" stays as the invocation before left it.         *)
(* fn_ret.earlier keeps, for every invocation that ended, its archive and  *)
(* what it returned or raised.                                             *)
(***************************************************************************)
MaxRuns == 2

SequenceMembers ==
    {File(pred_name("Lorenz", "X1"), ArrA),
     File(pred_name("Lorenz", "X1"), ArrB),
     File(<<"sub", "/">> \o pred_name("Rossler", "X1"), ArrA),
     File(pred_name("KS", "X1"), ArrA),
     File(<<"notes", ".", "txt">>, Zeros31)}

SequenceArchives ==
    {[readable |-> FALSE, members |-> <<>>]}
    \cup {[readable |-> TRUE, members |-> ms] :
            ms \in UNION {[1..n -> SequenceMembers] : n \in 0..MaxMembers}}

InitSequence ==
    /\ status \in Statuses
    /\ tar_file \in SequenceArchives
    /\ groundtruth \in {GroundTruth(ArrA, {}), GroundTruth(ArrA, {"Rossler"})}
    /\ evaluation_id = "9615379"
    /\ predictions = NoDirectory
    /\ results_file = NoFile
    /\ pc = "start"
    /\ todo = {}
    /\ score_result = EmptyDict
    /\ loaded = {}
    /\ calls = {}
    /\ outcome = NoOutcome
    /\ fn_args = [fn |-> "score_submission", run |-> 1]
    /\ fn_ret = [fn |-> "score_submission", earlier |-> <<>>]

\* the next invocation starts, on any archive, with fresh local variables
InvokeAgain ==
    /\ pc = "done"
    /\ fn_args.fn = "score_submission"
    /\ fn_args.run < MaxRuns
    /\ fn_args' = [fn_args EXCEPT !.run = @ + 1]
    /\ fn_ret' = [fn_ret EXCEPT !.earlier =
                      Append(@, [tar_file |-> tar_file, outcome |-> outcome])]
    /\ tar_file' \in SequenceArchives
    /\ pc' = "start"
    /\ todo' = {}
    /\ score_result' = EmptyDict
    /\ loaded' = {}
    /\ calls' = {}
    /\ outcome' = NoOutcome
    /\ UNCHANGED <<status, groundtruth, evaluation_id, predictions, results_file>>

NextSequence ==
    StatusInvalid \/ Untar \/ ListSystems \/ ScoreSystem \/ Return \/ InvokeAgain

SpecSequence == InitSequence /\ [][NextSequence]_vars

\* C28: the record returned by score_submission is determined by its inputs
\* alone and does not depend on the order in which the set of present
\* systems is iterated: two runs on the same archive, ground truth,
\* evaluation id and status return the same score_status, the same
\* score_errors and the same score keys, including when two present systems
\* would each fail with a different error.
C28_SameInputsSameRecord ==
    (/\ pc = "done"
     /\ fn_args.fn = "score_submission"
     /\ fn_args.run = 2
     /\ fn_ret.earlier[1].tar_file = tar_file) =>
        LET first == fn_ret.earlier[1].outcome
        IN  /\ outcome.kind = first.kind
            /\ outcome.score_status = first.score_status
            /\ DOMAIN outcome.result = DOMAIN first.result
            /\ outcome.kind = "return" =>
                  outcome.result["score_errors"] = first.result["score_errors"]

\* the files untar writes from an archive into an empty directory
OwnNpy(archive) == untar_members(NoDirectory, archive.members, <<".", "npy">>).files

\* the prediction file of the pair is a member of the invocation's archive
\* and the directory holds that member's content
IsOwn(system, prefix) ==
    /\ pred_name(system, prefix) \in DOMAIN OwnNpy(tar_file)
    /\ pred_name(system, prefix) \in DOMAIN predictions.files
    /\ predictions.files[pred_name(system, prefix)] =
           OwnNpy(tar_file)[pred_name(system, prefix)]

\* C29: across any sequence of score_submission invocations run in the same
\* working directory, the prediction files scored by an invocation are
\* exactly the ".npy" members of that invocation's own archive: a file
\* extracted by an earlier invocation never contributes a score key or an
\* error to a later invocation.
C29_OnlyOwnArchiveScored ==
    fn_args.fn = "score_submission" =>
        /\ \A system \in true_systems : \A prefix \in Prefixes :
              (\/ pred_path(system, prefix) \in loaded
               \/ truth_path(system, prefix) \in loaded) => IsOwn(system, prefix)
        /\ \A key \in DOMAIN score_result :
              \E system \in true_systems : \E task \in TasksOf(evaluation_id) :
                  /\ key \in KeysOfPair(system, task)
                  /\ IsOwn(system, task.prefix)
        /\ pc = "loop" =>
              \A system \in todo :
                  \E f \in DOMAIN OwnNpy(tar_file) : split_first(f) = <<system>>

====
